------------------------------ MODULE LibusbHid ------------------------------
(***************************************************************************)
(* One open device of hidapi on libusb (libs/hidapi/libusb/hid.c): the     *)
(* user's thread and the read thread, which handles the events of libusb.  *)
(* One interrupt transfer is submitted again and again by its own          *)
(* callback; the callback runs inside libusb_handle_events().              *)
(*                                                                         *)
(* A transfer that has ended is handled by the callback later.  To cancel  *)
(* one works only while it is in flight; the code does not look at whether *)
(* it worked, and not at whether the first submission did.                 *)
(***************************************************************************)
EXTENDS Naturals, Sequences

CONSTANTS
    Limit,         (* the 30 of read_callback() *)
    NumReports     (* bound: how many reports the device sends *)

VARIABLES
    upc,           (* where the user's thread is *)
    tpc,           (* where the read thread is *)
    matches,       (* the altsettings with the path that are still to come *)
    mutex,         (* who holds dev->mutex: "free" or "user" *)
    plugged,       (* the device is connected *)
    input_reports, (* the list of reports *)
    shutdown_thread, cancelled,
    transfer,      (* "idle", "flying", how it ended, or "attached" when its
                      report is in the list and it is still to be resubmitted *)
    missed,        (* history: a cancellation that the read thread waits for
                      has not come about *)
    timeout,       (* of the current read: "block" for -1, "timed", "poll" *)
    result,        (* what the last call returned *)
    sent, last     (* the reports that arrived, and the one read last *)

vars == <<upc, tpc, matches, mutex, plugged, input_reports, shutdown_thread,
          cancelled, transfer, missed, timeout, result, sent, last>>

flags == <<shutdown_thread, cancelled>>
deviceVars == <<plugged, sent>>

Init ==
    /\ upc = "new" /\ tpc = "none" /\ matches = 0 /\ mutex = "free"
    /\ plugged = TRUE /\ input_reports = <<>>
    /\ shutdown_thread = FALSE /\ cancelled = FALSE
    /\ transfer = "idle" /\ missed = FALSE
    /\ timeout = "block" /\ result = "none" /\ sent = 0 /\ last = 0

-----------------------------------------------------------------------------
(* hid_open_path().                                                        *)

\* An altsetting with the path is found, out of n: it is opened, its kernel
\* driver detached, its interface claimed, and the read thread started ...
OpenPath(n) ==
    /\ upc = "new" /\ plugged
    /\ matches' = n - 1
    /\ upc' = "barrier" /\ tpc' = "submit"
    /\ UNCHANGED <<mutex, input_reports, flags, transfer, missed, timeout,
                   result, last, deviceVars>>

\* ... or one of this fails.
OpenFails ==
    /\ upc = "new"
    /\ upc' = "failed" /\ result' = "null"
    /\ UNCHANGED <<tpc, matches, mutex, input_reports, flags, transfer, missed,
                   timeout, last, deviceVars>>

\* The two meet at the barrier.
Meet ==
    /\ upc = "barrier" /\ tpc = "barrier"
    /\ upc' = "again" /\ tpc' = "loop"
    /\ UNCHANGED <<matches, mutex, input_reports, flags, transfer, missed,
                   timeout, result, last, deviceVars>>

OpenReturns ==
    /\ upc = "again" /\ matches = 0
    /\ upc' = "idle" /\ result' = "open"
    /\ UNCHANGED <<tpc, matches, mutex, input_reports, flags, transfer, missed,
                   timeout, last, deviceVars>>

\* The search goes on after a match.  Another altsetting of the interface has
\* the same path: the interface, which is claimed already, cannot be claimed
\* with another handle, good_open is taken back, and the device is freed while
\* its read thread runs; nothing is defined from there.  If it cannot even be
\* opened, the first handle stays good.
OpenAgain ==
    /\ upc = "again" /\ matches > 0
    /\ matches' = matches - 1
    /\ \/ upc' = "freed" /\ result' = "null" /\ input_reports' = <<>>
       \/ UNCHANGED <<upc, result, input_reports>>
    /\ UNCHANGED <<tpc, mutex, flags, transfer, missed, timeout, last,
                   deviceVars>>

-----------------------------------------------------------------------------
(* read_thread() and read_callback().                                      *)

Runs == upc \notin {"freed", "closed"}

\* libusb_submit_transfer() can fail at any time, and does without a device.
Submitted == {"idle"} \union {f \in {"flying"} : plugged}

\* The first submission, whose result is not looked at.
Submit ==
    /\ tpc = "submit" /\ Runs
    /\ tpc' = "barrier"
    /\ transfer' \in Submitted
    /\ missed' = (transfer' = "idle")
    /\ UNCHANGED <<upc, matches, mutex, input_reports, flags, timeout, result,
                   last, deviceVars>>

TestLoop ==
    /\ tpc = "loop" /\ Runs
    /\ tpc' = IF shutdown_thread THEN "cancel" ELSE "events"
    /\ UNCHANGED <<upc, matches, mutex, input_reports, flags, transfer, missed,
                   timeout, result, last, deviceVars>>

\* libusb_handle_events() returns without an event, or with an error of which
\* only a fatal one ends the loop.
NoEvent ==
    /\ tpc = "events" /\ Runs /\ transfer \in {"idle", "flying"}
    /\ tpc' \in {"loop", "cancel"}
    /\ UNCHANGED <<upc, matches, mutex, input_reports, flags, transfer, missed,
                   timeout, result, last, deviceVars>>

\* libusb_handle_events_completed() looks at `cancelled` first.
Drained ==
    /\ tpc = "drain" /\ Runs /\ cancelled
    /\ tpc' = "broadcast"
    /\ UNCHANGED <<upc, matches, mutex, input_reports, flags, transfer, missed,
                   timeout, result, last, deviceVars>>

Handling == Runs /\ (tpc = "events" \/ (tpc = "drain" /\ ~cancelled))

\* The list after a report has been attached, the oldest popped at the limit.
Attached(rpts, r) ==
    IF rpts # <<>> /\ Len(rpts) - 1 > Limit
    THEN Tail(Append(rpts, r)) ELSE Append(rpts, r)

\* Mutant: the signal is forgotten.
CallbackSilent ==
    /\ Handling /\ transfer = "completed" /\ mutex = "free"
    /\ transfer' = "attached"
    /\ sent' = sent + 1
    /\ input_reports' = Attached(input_reports, sent + 1)
    /\ UNCHANGED <<upc, tpc, matches, mutex, plugged, flags, missed, timeout,
                   result, last>>

\* read_callback(): a report.  The reader is signalled if the list was empty.
Callback ==
    /\ Handling /\ transfer = "completed" /\ mutex = "free"
    /\ transfer' = "attached"
    /\ sent' = sent + 1
    /\ input_reports' = Attached(input_reports, sent + 1)
    /\ upc' = IF input_reports = <<>> /\ upc = "waiting" THEN "woken" ELSE upc
    /\ UNCHANGED <<tpc, matches, mutex, plugged, flags, missed, timeout,
                   result, last>>

\* It is submitted again, after a report, after its own five seconds and after a
\* failure that has no branch of its own, even if the thread is to shut down: the
\* cancellation for which the thread waits may already have been tried.
Resubmit ==
    /\ Handling /\ transfer \in {"attached", "timedOut"}
    /\ transfer' \in Submitted
    /\ shutdown_thread' = (shutdown_thread \/ transfer' = "idle")
    /\ cancelled' = (cancelled \/ transfer' = "idle")
    /\ missed' = (missed \/ (tpc = "drain" /\ transfer' = "flying"))
    /\ tpc' = IF tpc = "events" THEN "loop" ELSE tpc
    /\ UNCHANGED <<upc, matches, mutex, input_reports, timeout, result, last,
                   deviceVars>>

\* A cancelled transfer, or one whose device has gone, ends the thread.
Stop ==
    /\ Handling /\ transfer \in {"cancelled", "noDevice"}
    /\ transfer' = "idle"
    /\ shutdown_thread' = TRUE /\ cancelled' = TRUE
    /\ tpc' = IF tpc = "events" THEN "loop" ELSE tpc
    /\ UNCHANGED <<upc, matches, mutex, input_reports, missed, timeout, result,
                   last, deviceVars>>

\* libusb_cancel_transfer(), of which nobody looks at the result.
Cancelled == IF transfer = "flying" THEN "cancelled" ELSE transfer

\* Mutant: hid_close() is trusted to have cancelled the transfer.
CancelNot ==
    /\ tpc = "cancel" /\ Runs
    /\ tpc' = "drain"
    /\ UNCHANGED <<upc, matches, mutex, input_reports, flags, missed, timeout,
                   result, last, deviceVars, transfer>>

Cancel ==
    /\ tpc = "cancel" /\ Runs
    /\ tpc' = "drain"
    /\ transfer' = Cancelled
    /\ UNCHANGED <<upc, matches, mutex, input_reports, flags, missed, timeout,
                   result, last, deviceVars>>

\* The reader is woken under the mutex, and the thread ends.
Broadcast ==
    /\ tpc = "broadcast" /\ Runs /\ mutex = "free"
    /\ tpc' = "ended"
    /\ upc' = IF upc = "waiting" THEN "woken" ELSE upc
    /\ UNCHANGED <<matches, mutex, input_reports, flags, transfer, missed,
                   timeout, result, last, deviceVars>>

-----------------------------------------------------------------------------
(* The user's thread.                                                      *)

\* return_data(): the first report leaves the list.
ReturnData ==
    /\ last' = Head(input_reports)
    /\ input_reports' = Tail(input_reports)
    /\ result' = "data" /\ upc' = "idle"
    /\ UNCHANGED mutex

Return(value) ==
    /\ result' = value /\ upc' = "idle"
    /\ UNCHANGED <<last, input_reports, mutex>>

\* A reader that is going to sleep keeps the mutex until it does.
FallAsleep ==
    /\ upc' = "sleep" /\ mutex' = "user"
    /\ UNCHANGED <<last, input_reports, result>>

\* hid_read_timeout(): a report, else the end of the thread, else what the
\* timeout asks for.
Read(t) ==
    /\ upc = "idle" /\ mutex = "free"
    /\ timeout' = t
    /\ \/ input_reports # <<>> /\ ReturnData
       \/ input_reports = <<>> /\ shutdown_thread /\ Return("error")
       \/ /\ input_reports = <<>> /\ ~shutdown_thread
          /\ IF t = "poll" THEN Return("nothing") ELSE FallAsleep
    /\ UNCHANGED <<tpc, matches, flags, transfer, missed, deviceVars>>

\* pthread_cond_wait() and pthread_cond_timedwait() release the mutex ...
Sleep ==
    /\ upc = "sleep"
    /\ upc' = "waiting" /\ mutex' = "free"
    /\ UNCHANGED <<tpc, matches, input_reports, flags, transfer, missed,
                   timeout, result, last, deviceVars>>

\* ... and may wake up for no reason,
WakesSpuriously ==
    /\ upc = "waiting"
    /\ upc' = "woken"
    /\ UNCHANGED <<tpc, matches, mutex, input_reports, flags, transfer, missed,
                   timeout, result, last, deviceVars>>

\* or because the time is over; hid_read_timeout() then returns 0.
WaitTimesOut ==
    /\ upc = "waiting" /\ timeout = "timed"
    /\ upc' = "timedOut"
    /\ UNCHANGED <<tpc, matches, mutex, input_reports, flags, transfer, missed,
                   timeout, result, last, deviceVars>>

TimedOut ==
    /\ upc = "timedOut" /\ mutex = "free"
    /\ Return("nothing")
    /\ UNCHANGED <<tpc, matches, flags, transfer, missed, timeout, deviceVars>>

\* The loop of the wait: reports come before the end of the thread.
Woken ==
    /\ upc = "woken" /\ mutex = "free"
    /\ \/ input_reports # <<>> /\ ReturnData
       \/ input_reports = <<>> /\ shutdown_thread /\ Return("error")
       \/ input_reports = <<>> /\ ~shutdown_thread /\ FallAsleep
    /\ UNCHANGED <<tpc, matches, flags, transfer, missed, timeout, deviceVars>>

\* hid_write() and the feature reports are synchronous transfers.
Send ==
    /\ upc = "idle"
    /\ result' \in {"error"} \union {r \in {"written"} : plugged}
    /\ UNCHANGED <<upc, tpc, matches, mutex, input_reports, flags, transfer,
                   missed, timeout, last, deviceVars>>

\* hid_close().
Close ==
    /\ upc = "idle"
    /\ upc' = "closing"
    /\ shutdown_thread' = TRUE
    /\ UNCHANGED <<tpc, matches, mutex, input_reports, cancelled, transfer,
                   missed, timeout, result, last, deviceVars>>

CloseCancels ==
    /\ upc = "closing"
    /\ upc' = "join"
    /\ transfer' = Cancelled
    /\ UNCHANGED <<tpc, matches, mutex, input_reports, flags, missed, timeout,
                   result, last, deviceVars>>

\* After the read thread the transfer, the handle and the list are freed.
Join ==
    /\ upc = "join" /\ tpc = "ended"
    /\ upc' = "closed"
    /\ input_reports' = <<>>
    /\ UNCHANGED <<tpc, matches, mutex, flags, transfer, missed, timeout,
                   result, last, deviceVars>>

-----------------------------------------------------------------------------
(* libusb and the device.                                                  *)

Arrive ==
    /\ transfer = "flying" /\ plugged /\ sent < NumReports /\ Runs
    /\ transfer' = "completed"
    /\ UNCHANGED <<upc, tpc, matches, mutex, plugged, input_reports, flags,
                   missed, timeout, result, sent, last>>

\* The time of the transfer is over, or it stalls or overflows.
FiveSeconds ==
    /\ transfer = "flying" /\ Runs
    /\ transfer' = "timedOut"
    /\ UNCHANGED <<upc, tpc, matches, mutex, plugged, input_reports, flags,
                   missed, timeout, result, sent, last>>

Unplug ==
    /\ plugged /\ Runs /\ upc # "failed"
    /\ plugged' = FALSE
    /\ transfer' = IF transfer = "flying" THEN "noDevice" ELSE transfer
    /\ UNCHANGED <<upc, tpc, matches, mutex, input_reports, flags, missed,
                   timeout, result, sent, last>>

\* The device has gone as far as a reader of the list can tell.
Gone == ~plugged /\ transfer \notin {"completed", "attached"}

Opens == Meet \/ OpenReturns \/ OpenAgain
Starts == (\E n \in 1..2 : OpenPath(n)) \/ OpenFails
Begins == (\E t \in {"block", "timed", "poll"} : Read(t)) \/ Send \/ Close
Goes == Sleep \/ WaitTimesOut \/ CloseCancels \/ Join
ThreadStep == Submit \/ TestLoop \/ Drained \/ Resubmit \/ Stop \/ Cancel
Device == NoEvent \/ WakesSpuriously \/ Arrive \/ FiveSeconds \/ Unplug

Next ==
    \/ Opens \/ Starts \/ Begins \/ Goes \/ TimedOut \/ Woken
    \/ ThreadStep \/ Callback \/ Broadcast \/ Device

\* Each thread runs on, and the mutex, which is held for moments, is had in the
\* end by who wants it.
Fairness ==
    /\ WF_vars(Opens) /\ WF_vars(Goes) /\ WF_vars(ThreadStep)
    /\ SF_vars(TimedOut) /\ SF_vars(Woken)
    /\ SF_vars(Callback) /\ SF_vars(Broadcast)

Spec == Init /\ [][Next]_vars /\ Fairness
=============================================================================

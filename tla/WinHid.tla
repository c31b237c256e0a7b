------------------------------- MODULE WinHid -------------------------------
(***************************************************************************)
(* One open device of hidapi for Windows (libs/hidapi/windows/hid.c).      *)
(* There is no read thread: a read is an overlapped ReadFile() into        *)
(* dev->read_buf, which a hid_read_timeout() whose time is over leaves     *)
(* running for the next one.  The system keeps the reports that no read is *)
(* waiting for in a ring, and a full ring drops its oldest.                *)
(***************************************************************************)
EXTENDS Naturals, Sequences

CONSTANTS
    Ring,          (* HidD_SetNumInputBuffers(): 64 in the code *)
    NumReports     (* bound: how many reports the device sends *)

VARIABLES
    upc,           (* where the user is: "wait" and "get" are in a read *)
    plugged,       (* the device is connected *)
    input_reports, (* the ring *)
    timeout,       (* of the current read: "block" for -1, "timed", "poll" *)
    result,        (* what the last call returned *)
    sent, last,    (* the reports that arrived, and the one read last *)
    read_pending,
    io,            (* the overlapped read: "none", "running", "done", "failed" *)
    read_buf       (* the report that it has put there *)

vars == <<upc, plugged, input_reports, timeout, result, sent, last,
          read_pending, io, read_buf>>

ioVars == <<read_pending, io, read_buf>>

Init ==
    /\ upc = "new" /\ plugged = TRUE /\ input_reports = <<>>
    /\ timeout = "block" /\ result = "none" /\ sent = 0 /\ last = 0
    /\ read_pending = FALSE /\ io = "none" /\ read_buf = 0

\* hid_open_path(): the device is opened, its ring and its report lengths are
\* had ...
OpenPath ==
    /\ upc = "new" /\ plugged
    /\ upc' = "idle" /\ result' = "open"
    /\ UNCHANGED <<plugged, input_reports, timeout, sent, last, ioVars>>

\* ... or one of these fails and the handle is freed.
OpenFails ==
    /\ upc = "new"
    /\ upc' = "failed" /\ result' = "null"
    /\ UNCHANGED <<plugged, input_reports, timeout, sent, last, ioVars>>

\* A read has to be started.
Start ==
    \/ \* ReadFile() takes a report out of the ring at once,
       /\ input_reports # <<>>
       /\ io' = "done" /\ read_buf' = Head(input_reports)
       /\ input_reports' = Tail(input_reports)
       /\ read_pending' = TRUE /\ upc' = "wait" /\ UNCHANGED result
    \/ \* or goes on,
       /\ input_reports = <<>> /\ plugged
       /\ io' = "running" /\ read_buf' = 0
       /\ read_pending' = TRUE /\ upc' = "wait"
       /\ UNCHANGED <<input_reports, result>>
    \/ \* or fails, and is cancelled.
       /\ ~plugged
       /\ io' = "none" /\ read_buf' = 0 /\ read_pending' = FALSE
       /\ result' = "error"
       /\ UNCHANGED <<input_reports, upc>>

\* hid_read_timeout(): the read of an earlier call may still be running.
Read(t) ==
    /\ upc = "idle"
    /\ timeout' = t
    /\ IF read_pending
       THEN upc' = "wait" /\ UNCHANGED <<input_reports, result, ioVars>>
       ELSE Start
    /\ UNCHANGED <<plugged, sent, last>>

\* Mutant: the read that goes on is forgotten.
NotInTimeForgets ==
    /\ upc = "wait" /\ timeout # "block" /\ io = "running"
    /\ upc' = "idle" /\ result' = "nothing"
    /\ read_pending' = FALSE
    /\ UNCHANGED <<plugged, input_reports, timeout, sent, last, io, read_buf>>

\* WaitForSingleObject() times out: the read goes on.
NotInTime ==
    /\ upc = "wait" /\ timeout # "block" /\ io = "running"
    /\ upc' = "idle" /\ result' = "nothing"
    /\ UNCHANGED <<plugged, input_reports, timeout, sent, last, ioVars>>

\* WaitForSingleObject() finds the event of the read signalled, or a blocking
\* read has nothing to look at first.
InTime ==
    /\ upc = "wait"
    /\ timeout = "block" \/ io # "running"
    /\ upc' = "get"
    /\ UNCHANGED <<plugged, input_reports, timeout, result, sent, last, ioVars>>

\* GetOverlappedResult() waits for the end of the read.
GetResult ==
    /\ upc = "get" /\ io # "running"
    /\ upc' = "idle"
    /\ read_pending' = FALSE /\ io' = "none" /\ read_buf' = 0
    /\ IF io = "done" THEN result' = "data" /\ last' = read_buf
                      ELSE result' = "error" /\ UNCHANGED last
    /\ UNCHANGED <<plugged, input_reports, timeout, sent>>

\* hid_write() waits for its own overlapped write, and so does
\* hid_get_feature_report(); hid_send_feature_report() is one call.
Send ==
    /\ upc = "idle"
    /\ result' \in {"error"} \union {r \in {"written"} : plugged}
    /\ UNCHANGED <<upc, plugged, input_reports, timeout, sent, last, ioVars>>

\* hid_close() cancels the read and frees its buffer without waiting for it.
Close ==
    /\ upc = "idle"
    /\ upc' = "closed"
    /\ input_reports' = <<>>
    /\ read_pending' = FALSE /\ io' = "none" /\ read_buf' = 0
    /\ UNCHANGED <<plugged, timeout, result, sent, last>>

\* A report arrives: it ends the read that is running, or goes to the ring.
Arrive ==
    /\ upc \notin {"new", "failed", "closed"} /\ plugged /\ sent < NumReports
    /\ sent' = sent + 1
    /\ IF io = "running"
       THEN io' = "done" /\ read_buf' = sent + 1 /\ UNCHANGED input_reports
       ELSE /\ input_reports' = IF Len(input_reports) < Ring
                                THEN Append(input_reports, sent + 1)
                                ELSE Tail(Append(input_reports, sent + 1))
            /\ UNCHANGED <<io, read_buf>>
    /\ UNCHANGED <<upc, plugged, timeout, result, last, read_pending>>

\* With the device go its ring and the read that is running.
Unplug ==
    /\ upc \notin {"failed", "closed"} /\ plugged
    /\ plugged' = FALSE
    /\ input_reports' = <<>>
    /\ io' = IF io = "running" THEN "failed" ELSE io
    /\ UNCHANGED <<upc, timeout, result, sent, last, read_pending, read_buf>>

\* The reports that hid_read() can still give out, oldest first.
Readable ==
    (IF io = "done" THEN <<read_buf>> ELSE <<>>) \o input_reports

Opens == OpenPath \/ OpenFails
Begins == (\E t \in {"block", "timed", "poll"} : Read(t)) \/ Send \/ Close
Goes == NotInTime \/ InTime \/ GetResult
Device == Arrive \/ Unplug

Next == Opens \/ Begins \/ Goes \/ Device

Spec == Init /\ [][Next]_vars /\ WF_vars(Goes)
=============================================================================

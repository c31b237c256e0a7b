------------------------------ MODULE LinuxHid ------------------------------
(***************************************************************************)
(* One open device of hidapi for Linux (libs/hidapi/linux/hid.c): a file   *)
(* of the kernel's hidraw.  A read that may not block asks poll() first,   *)
(* because of kernels that do not report a disconnection to a read() that  *)
(* may not block, and then calls a read() that may: what poll() has found  *)
(* is looked at again by read() later.                                     *)
(*                                                                         *)
(* hidraw keeps the reports that wait in a ring, drops the newest when it  *)
(* is full, and gives out what is in it after the device has gone.         *)
(***************************************************************************)
EXTENDS Naturals, Sequences

CONSTANTS
    Ring,          (* of the kernel *)
    NumReports     (* bound: how many reports the device sends *)

VARIABLES
    upc,           (* where the user is: "poll" and "read" are in a read *)
    plugged,       (* the device is connected *)
    input_reports, (* the ring *)
    timeout,       (* of the current read: "block" for -1, "timed", "poll" *)
    result,        (* what the last call returned *)
    sent, last     (* the reports that arrived, and the one read last *)

vars == <<upc, plugged, input_reports, timeout, result, sent, last>>

Init ==
    /\ upc = "new" /\ plugged = TRUE /\ input_reports = <<>>
    /\ timeout = "block" /\ result = "none" /\ sent = 0 /\ last = 0

\* hid_open_path(): a report descriptor that cannot be read does not matter.
OpenPath ==
    /\ upc = "new" /\ plugged
    /\ upc' = "idle" /\ result' = "open"
    /\ UNCHANGED <<plugged, input_reports, timeout, sent, last>>

OpenFails ==
    /\ upc = "new"
    /\ upc' = "failed" /\ result' = "null"
    /\ UNCHANGED <<plugged, input_reports, timeout, sent, last>>

\* hid_read_timeout(): only a blocking read skips poll().
Read(t) ==
    /\ upc = "idle"
    /\ timeout' = t
    /\ upc' = IF t = "block" THEN "read" ELSE "poll"
    /\ UNCHANGED <<plugged, input_reports, result, sent, last>>

\* poll() finds nothing in time, or is interrupted by a signal.
PollEnds ==
    /\ upc = "poll"
    /\ \/ result' = "nothing" /\ input_reports = <<>> /\ plugged
       \/ result' = "error"
    /\ upc' = "idle"
    /\ UNCHANGED <<plugged, input_reports, timeout, sent, last>>

\* POLLERR or POLLHUP: an error, whether or not there are reports.
PollHangup ==
    /\ upc = "poll" /\ ~plugged
    /\ upc' = "idle" /\ result' = "error"
    /\ UNCHANGED <<plugged, input_reports, timeout, sent, last>>

PollIn ==
    /\ upc = "poll" /\ plugged /\ input_reports # <<>>
    /\ upc' = "read"
    /\ UNCHANGED <<plugged, input_reports, timeout, result, sent, last>>

\* read() of a report.
ReadReport ==
    /\ upc = "read" /\ input_reports # <<>>
    /\ last' = Head(input_reports)
    /\ input_reports' = Tail(input_reports)
    /\ upc' = "idle" /\ result' = "data"
    /\ UNCHANGED <<plugged, timeout, sent>>

\* read() fails, with EIO when the device has gone or with EINTR; or with
\* EAGAIN, which becomes 0, and -1 where the first byte is chopped off.
ReadFails ==
    /\ upc = "read"
    /\ upc' = "idle"
    /\ result' \in {"error", "nothing"}
    /\ UNCHANGED <<plugged, input_reports, timeout, sent, last>>

\* hid_write() and the feature reports.
Send ==
    /\ upc = "idle"
    /\ result' \in {"error"} \union {r \in {"written"} : plugged}
    /\ UNCHANGED <<upc, plugged, input_reports, timeout, sent, last>>

Close ==
    /\ upc = "idle"
    /\ upc' = "closed"
    /\ input_reports' = <<>>
    /\ UNCHANGED <<plugged, timeout, result, sent, last>>

\* A report arrives in the ring, or finds it full.
Arrive ==
    /\ upc \notin {"new", "failed", "closed"} /\ plugged /\ sent < NumReports
    /\ sent' = sent + 1
    /\ input_reports' = IF Len(input_reports) < Ring
                        THEN Append(input_reports, sent + 1)
                        ELSE input_reports
    /\ UNCHANGED <<upc, plugged, timeout, result, last>>

Unplug ==
    /\ upc \notin {"failed", "closed"} /\ plugged
    /\ plugged' = FALSE
    /\ UNCHANGED <<upc, input_reports, timeout, result, sent, last>>

Readable == input_reports

\* read() ends by itself when there is a report or no device any more.
Opens == OpenPath \/ OpenFails
Begins == (\E t \in {"block", "timed", "poll"} : Read(t)) \/ Send \/ Close
ReadEnds == ReadReport \/ (~plugged /\ ReadFails)
Goes == PollEnds \/ PollHangup \/ PollIn \/ ReadEnds
Device == Arrive \/ Unplug

Next == Opens \/ Begins \/ Goes \/ ReadFails \/ Device

Spec == Init /\ [][Next]_vars /\ WF_vars(Goes)
=============================================================================

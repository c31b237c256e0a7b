----------------------------- MODULE HidBackends -----------------------------
(***************************************************************************)
(* hidapi as a program is linked with it: one of the four hid.c, whose     *)
(* hid_open() enumerates the devices and opens one, which is then read,    *)
(* written and closed.  The open device of macOS is module MacHid; here    *)
(* its hid_open_path() returns at once.                                    *)
(*                                                                         *)
(* While hid_open() runs the user does nothing else, but a read thread     *)
(* does, and the device: so the variables of the four parts are the same   *)
(* here, and only those of the linked part ever change.                    *)
(***************************************************************************)
EXTENDS HidEnumeration

CONSTANTS
    Limit,         (* the 30 of libusb's read_callback() *)
    Ring,          (* the reports that Windows and Linux keep *)
    NumReports     (* bound: how many reports the device sends *)

ASSUME BackendsAssumption == Limit \in Nat /\ Ring \in Nat /\ NumReports \in Nat

VARIABLES
    upc, plugged, input_reports, timeout, result, sent, last,  (* of each *)
    read_pending, io, read_buf,                                (* WinHid *)
    tpc, matches, mutex, shutdown_thread, cancelled, transfer, missed
                                                               (* LibusbHid *)

Windows == INSTANCE WinHid
Linux == INSTANCE LinuxHid
Libusb == INSTANCE LibusbHid

winVars == <<read_pending, io, read_buf>>
usbVars == <<tpc, matches, mutex, shutdown_thread, cancelled, transfer, missed>>
dvars == <<upc, plugged, input_reports, timeout, result, sent, last, winVars,
           usbVars>>
vars == <<evars, dvars>>

Init == EInit /\ Windows!Init /\ Linux!Init /\ Libusb!Init

On(b) == backend = b

\* A step of the linked part, of which there are three.
Step(b, A) ==
    /\ backend = b /\ A
    /\ UNCHANGED evars
    /\ b # "windows" => UNCHANGED winVars
    /\ b # "libusb" => UNCHANGED usbVars

\* hid_open() before and after hid_open_path().
Enumerating == ENext /\ UNCHANGED dvars

HasReturned == On("mac") \/ upc \in {"idle", "failed", "freed"}

Returning == OpenReturns /\ HasReturned /\ UNCHANGED dvars

\* hid_open_path() of the path that was found.
Opening ==
    /\ epc = "opening"
    /\ \/ Step("windows", Windows!Opens)
       \/ Step("linux", Linux!Opens)
       \/ Step("libusb", Libusb!OpenFails)
       \/ Step("libusb",
               Libusb!OpenPath(IF seen[path].cond = "twice" THEN 2 ELSE 1))
       \/ Step("libusb", Libusb!Opens)

\* The user has a handle.
Beginning ==
    /\ epc = "done"
    /\ \/ Step("windows", Windows!Begins)
       \/ Step("linux", Linux!Begins)
       \/ Step("libusb", Libusb!Begins)

Going ==
    \/ Step("windows", Windows!Goes)
    \/ Step("linux", Linux!Goes)
    \/ Step("libusb", Libusb!Goes)

\* A call that waits for the mutex.
Locking == Step("libusb", Libusb!TimedOut) \/ Step("libusb", Libusb!Woken)

ThreadStep == Step("libusb", Libusb!ThreadStep)
Callback == Step("libusb", Libusb!Callback)
Broadcast == Step("libusb", Libusb!Broadcast)

\* The device and the system, once hid_open_path() has been called.
Happening ==
    /\ epc \in {"opening", "free", "done"}
    /\ \/ Step("windows", Windows!Device)
       \/ Step("linux", Linux!Device)
       \/ Step("linux", Linux!ReadFails)
       \/ Step("libusb", Libusb!Device)

\* The program goes on without a device, or has crashed or hangs in hid_close().
Terminating ==
    /\ \/ epc = "crashed"
       \/ upc = "join" /\ tpc = "drain" /\ missed
       \/ epc = "done" /\ upc \in {"new", "failed", "freed", "closed"}
    /\ UNCHANGED vars

Next ==
    \/ Enumerating \/ Returning \/ Opening \/ Beginning \/ Going \/ Locking
    \/ ThreadStep \/ Callback \/ Broadcast \/ Happening \/ Terminating

\* Every thread runs on; the mutex, which is held for moments, is had in the
\* end by who wants it; and a timed wait, a poll() and a read() with something
\* to read end.
Fairness ==
    /\ WF_vars(Enumerating) /\ WF_vars(Returning) /\ WF_vars(Opening)
    /\ WF_vars(Going) /\ WF_vars(ThreadStep)
    /\ SF_vars(Locking) /\ SF_vars(Callback) /\ SF_vars(Broadcast)

Spec == Init /\ [][Next]_vars /\ Fairness

-----------------------------------------------------------------------------
(* Properties.                                                             *)

TypeOK ==
    /\ ETypeOK
    /\ upc \in {"new", "barrier", "again", "idle", "wait", "get", "poll", "read",
                "sleep", "waiting", "woken", "timedOut", "closing", "join",
                "failed", "freed", "closed"}
    /\ plugged \in BOOLEAN /\ input_reports \in Seq(1..sent)
    /\ timeout \in {"block", "timed", "poll"}
    /\ result \in {"none", "open", "null", "data", "nothing", "error", "written"}
    /\ sent \in 0..NumReports /\ last \in 0..sent
    /\ read_pending \in BOOLEAN /\ io \in {"none", "running", "done", "failed"}
    /\ read_buf \in 0..sent /\ (io = "done" <=> read_buf # 0)
    /\ tpc \in {"none", "submit", "barrier", "loop", "events", "cancel", "drain",
                "broadcast", "ended"}
    /\ matches \in 0..1 /\ mutex \in {"free", "user"}
    /\ shutdown_thread \in BOOLEAN /\ cancelled \in BOOLEAN
    /\ transfer \in {"idle", "flying", "completed", "timedOut", "noDevice",
                     "cancelled", "attached"}
    /\ missed \in BOOLEAN

Readable == IF On("windows") THEN Windows!Readable ELSE input_reports

HasGone == IF On("libusb") THEN Libusb!Gone ELSE ~plugged

\* hid_read_timeout(): whichever hid.c is linked, a reader gets the reports of
\* the device in order and each once, and only a buffer that was full may have
\* lost one: also if a read timed out before the report came, if the device
\* goes, or if poll() and read() see different things.
Channel == INSTANCE ReportChannel WITH
    Depth <- IF Limit + 2 < Ring THEN Limit + 2 ELSE Ring,
    phase <- CASE upc \in {"new", "failed"} -> "new"
               [] upc \in {"freed", "closed"} -> "closed"
               [] upc \notin {"new", "failed", "freed", "closed"}
                  /\ ~HasGone -> "open"
               [] OTHER -> "gone",
    waiting <- Readable

ImplementsChannel == Channel!Spec

\* hid_read_timeout(): a call that waits returns when there is a report or the
\* device has gone, whatever the order of the events and of its falling
\* asleep; on libusb, unless the transfer had never been submitted.
BlockedReadEnds ==
    (/\ upc \in {"wait", "get", "poll", "read", "sleep", "waiting", "woken"}
     /\ Readable # <<>> \/ ~plugged) ~> (upc = "idle" \/ missed)

\* hid_close(): it returns; on libusb, unless the read thread waits for a
\* cancellation that has been lost: the first submission failed, or the
\* callback submitted the transfer again behind the last cancellation.
CloseReturns == upc = "closing" ~> (upc = "closed" \/ missed)
=============================================================================

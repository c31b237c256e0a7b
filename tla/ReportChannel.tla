---------------------------- MODULE ReportChannel ----------------------------
(***************************************************************************)
(* What hidapi promises the reader of one open device, whichever hid.c is  *)
(* linked: the input reports are handed out one by one in the order in     *)
(* which they arrived, each at most once.  While fewer than `Depth` reports *)
(* wait none is lost; a channel that holds as many may lose one of them    *)
(* when another arrives.  When the device goes, the latest of the reports  *)
(* that wait may be lost with it; the others can still be read.  Closing   *)
(* throws away what waits.                                                 *)
(*                                                                         *)
(* Reports are numbered in the order of their arrival.                     *)
(***************************************************************************)
EXTENDS Naturals, Sequences, SequencesExt

CONSTANT Depth      (* how many reports wait without loss *)

VARIABLES
    phase,      (* "new", "open", "gone" (the device is) or "closed" *)
    sent,       (* the number of reports that have arrived *)
    waiting,    (* the reports that can be read, oldest first *)
    last        (* the report handed out last, 0 before any *)

vars == <<phase, sent, waiting, last>>

Init == phase = "new" /\ sent = 0 /\ waiting = <<>> /\ last = 0

Open == /\ phase = "new"
        /\ phase' = "open"
        /\ UNCHANGED <<sent, waiting, last>>

Arrive ==
    /\ phase = "open"
    /\ sent' = sent + 1
    /\ LET all == Append(waiting, sent + 1)
       IN  \/ waiting' = all
           \/ /\ Len(waiting) >= Depth
              /\ \E i \in 1..Len(all) : waiting' = RemoveAt(all, i)
    /\ UNCHANGED <<phase, last>>

Receive ==
    /\ phase \in {"open", "gone"}
    /\ waiting # <<>>
    /\ last' = Head(waiting)
    /\ waiting' = Tail(waiting)
    /\ UNCHANGED <<phase, sent>>

Go == /\ phase = "open"
      /\ phase' = "gone"
      /\ \E n \in 0..Len(waiting) : waiting' = SubSeq(waiting, 1, n)
      /\ UNCHANGED <<sent, last>>

Close == /\ phase \in {"open", "gone"}
         /\ phase' = "closed"
         /\ waiting' = <<>>
         /\ UNCHANGED <<sent, last>>

Next == Open \/ Arrive \/ Receive \/ Go \/ Close

Spec == Init /\ [][Next]_vars
=============================================================================

---------------------------- MODULE CommandQueue ----------------------------
(***************************************************************************)
(* What the command queue of one JoyCon object promises to the threads     *)
(* that call ToggleParameter, SetIMUSensitivity and GetBatteryLevel,       *)
(* whatever the locks, condition variables and reads behind it are: a      *)
(* submitted command is performed at most once, commands are performed in  *)
(* the order of their submission, and none is performed once the object    *)
(* has been shut down.  Nothing is promised about a command that is still  *)
(* pending at that moment: it is accepted and silently never performed.    *)
(***************************************************************************)
EXTENDS Sequences, SequencesExt

CONSTANT Calls          (* the invocations of the queue functions *)

VARIABLES pending,      (* commands submitted and not yet performed, in order *)
          performed,    (* commands performed, in order *)
          open          (* FALSE once the object has been shut down *)

vars == <<pending, performed, open>>

Init ==
    /\ pending = <<>>
    /\ performed = <<>>
    /\ open = TRUE

\* A submission is accepted at any time, even after the shutdown.
Submit(c) ==
    /\ c \notin ToSet(pending) \union ToSet(performed)
    /\ pending' = Append(pending, c)
    /\ UNCHANGED <<performed, open>>

Perform ==
    /\ open
    /\ pending # <<>>
    /\ performed' = Append(performed, Head(pending))
    /\ pending' = Tail(pending)
    /\ UNCHANGED open

Shutdown ==
    /\ open
    /\ open' = FALSE
    /\ UNCHANGED <<pending, performed>>

Next ==
    \/ \E c \in Calls : Submit(c)
    \/ Perform
    \/ Shutdown

Spec == Init /\ [][Next]_vars

\* An object that stays open performs every command submitted to it.
Fairness == WF_vars(Perform)

FairSpec == Spec /\ Fairness
=============================================================================

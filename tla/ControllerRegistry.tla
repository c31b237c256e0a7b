------------------------- MODULE ControllerRegistry -------------------------
(***************************************************************************)
(* The main program: main(), enumerateJoycons() and on_sigint().  Every    *)
(* half second it asks hidapi for the right Joy-Cons, the left ones and    *)
(* the Pro controllers, opens what it takes for new ones and gives each a  *)
(* number and a thread; ctrl-c sets a flag that ends the loop, after       *)
(* Cleanup() of every controller.  Controllers come and go at any moment,  *)
(* and hidapi lists them in any order.                                     *)
(*                                                                         *)
(* Cleanup() of one controller is one step here, which may never come:     *)
(* it joins a worker that may be in a read without a time limit.           *)
(* JoyconLoop says when it returns.                                        *)
(***************************************************************************)
EXTENDS Naturals, Sequences, FiniteSets, SequencesExt

CONSTANTS Devices,      (* the controllers, by hidapi path *)
          TypeOf        (* which product id a controller has *)

Types == {"right", "left", "pro"}

ASSUME RegistryAssumption ==
    /\ IsFiniteSet(Devices)
    /\ TypeOf \in [Devices -> Types]

VARIABLES
    mpc,         (* where main() is *)
    pass,        (* the product id enumerateJoycons() is at *)
    cursor,      (* per type: what is left of the list being walked *)
    nodes,       (* per type: the list nodes allocated and not freed *)
    i,           (* the loop counter of enumerateJoycons() *)
    allct,       (* the controllers counted so far *)
    joycons,     (* per type: the objects, [dev, num] *)
    plugged,     (* the controllers that are connected *)
    signal_caught,
    done,
    toClean,     (* the objects on_sigint() has still to clean up *)
    cleanups     (* history: the devices of Cleanup() calls, in order *)

enumVars == <<pass, cursor, nodes, i, allct, joycons>>
exitVars == <<done, toClean, cleanups>>
vars == <<mpc, enumVars, plugged, signal_caught, exitVars>>

Total == Len(joycons["right"]) + Len(joycons["left"]) + Len(joycons["pro"])

Connected(t) == {d \in plugged : TypeOf[d] = t}

Init ==
    /\ mpc = "enumerate"
    /\ pass = "right"
    /\ cursor = [t \in Types |-> <<>>]
    /\ nodes = [t \in Types |-> {}]
    /\ i = 0
    /\ allct = 0
    /\ joycons = [t \in Types |-> <<>>]
    /\ plugged \in SUBSET Devices
    /\ signal_caught = FALSE
    /\ done = FALSE
    /\ toClean = <<>>
    /\ cleanups = <<>>

-----------------------------------------------------------------------------
(* enumerateJoycons().                                                     *)

\* Mutant: the controllers are counted per type.
HidEnumerateCounts ==
    /\ mpc = "enumerate"
    /\ \E list \in SetToSeqs(Connected(pass)) :
         cursor' = [cursor EXCEPT ![pass] = list]
    /\ nodes' = [nodes EXCEPT ![pass] = @ \union Connected(pass)]
    /\ i' = 0
    /\ allct' = Len(joycons[pass])
    /\ mpc' = "walk"
    /\ UNCHANGED <<pass, joycons, plugged, signal_caught, exitVars>>

\* allct is computed once, the lists one after the other.
HidEnumerate ==
    /\ mpc = "enumerate"
    /\ \E list \in SetToSeqs(Connected(pass)) :
         cursor' = [cursor EXCEPT ![pass] = list]
    /\ nodes' = [nodes EXCEPT ![pass] = @ \union Connected(pass)]
    /\ i' = 0
    /\ allct' = IF pass = "right" THEN Total ELSE allct
    /\ mpc' = "walk"
    /\ UNCHANGED <<pass, joycons, plugged, signal_caught, exitVars>>

\* Mutant: the counter goes on with the list.
SkipCounts ==
    /\ mpc = "walk"
    /\ cursor[pass] # <<>>
    /\ i < Len(joycons[pass])
    /\ cursor' = [cursor EXCEPT ![pass] = Tail(@)]
    /\ i' = i + 1
    /\ UNCHANGED <<mpc, pass, nodes, allct, joycons, plugged, signal_caught,
                   exitVars>>

\* if (i < size()) continue;  the counter stays as it is.
Skip ==
    /\ mpc = "walk"
    /\ cursor[pass] # <<>>
    /\ i < Len(joycons[pass])
    /\ cursor' = [cursor EXCEPT ![pass] = Tail(@)]
    /\ UNCHANGED <<mpc, pass, nodes, i, allct, joycons, plugged, signal_caught,
                   exitVars>>

\* Mutant: allct++ in the place of ++allct.
RegisterPostfix ==
    /\ mpc = "walk"
    /\ cursor[pass] # <<>>
    /\ i >= Len(joycons[pass])
    /\ Head(cursor[pass]) \in plugged
    /\ joycons' = [joycons EXCEPT ![pass] =
                     Append(@, [dev |-> Head(cursor[pass]), num |-> allct])]
    /\ allct' = allct + 1
    /\ i' = i + 1
    /\ cursor' = [cursor EXCEPT ![pass] = Tail(@)]
    /\ UNCHANGED <<mpc, pass, nodes, plugged, signal_caught, exitVars>>

\* hid_open_path(), hid_set_nonblocking() and new JoyCon(.., ++allct, ..).
Register ==
    /\ mpc = "walk"
    /\ cursor[pass] # <<>>
    /\ i >= Len(joycons[pass])
    /\ Head(cursor[pass]) \in plugged
    /\ joycons' = [joycons EXCEPT ![pass] =
                     Append(@, [dev |-> Head(cursor[pass]), num |-> allct + 1])]
    /\ allct' = allct + 1
    /\ i' = i + 1
    /\ cursor' = [cursor EXCEPT ![pass] = Tail(@)]
    /\ UNCHANGED <<mpc, pass, nodes, plugged, signal_caught, exitVars>>

\* The controller went away after it was listed: hid_open_path() returns NULL,
\* and hid_set_nonblocking() writes through it.
OpenFails ==
    /\ mpc = "walk"
    /\ cursor[pass] # <<>>
    /\ i >= Len(joycons[pass])
    /\ Head(cursor[pass]) \notin plugged
    /\ mpc' = "crashed"
    /\ UNCHANGED <<enumVars, plugged, signal_caught, exitVars>>

\* Mutant: the left Joy-Cons are not asked for.
NextPassSkipsLeft ==
    /\ mpc = "walk"
    /\ cursor[pass] = <<>>
    /\ \/ pass = "right" /\ pass' = "pro" /\ mpc' = "enumerate"
       \/ pass = "pro" /\ mpc' = "free" /\ UNCHANGED pass
    /\ UNCHANGED <<cursor, nodes, i, allct, joycons, plugged, signal_caught,
                   exitVars>>

NextPass ==
    /\ mpc = "walk"
    /\ cursor[pass] = <<>>
    /\ \/ pass = "right" /\ pass' = "left" /\ mpc' = "enumerate"
       \/ pass = "left" /\ pass' = "pro" /\ mpc' = "enumerate"
       \/ pass = "pro" /\ mpc' = "free" /\ UNCHANGED pass
    /\ UNCHANGED <<cursor, nodes, i, allct, joycons, plugged, signal_caught,
                   exitVars>>

\* hid_free_enumeration() frees the nodes from the given one on.
FreeEnumeration ==
    /\ mpc = "free"
    /\ nodes' = [t \in Types |-> nodes[t] \ ToSet(cursor[t])]
    /\ pass' = "right"
    /\ mpc' = "sleep"
    /\ UNCHANGED <<cursor, i, allct, joycons, plugged, signal_caught, exitVars>>

-----------------------------------------------------------------------------
(* main() and on_sigint().                                                 *)

\* Mutant: the flag is reset at the wrong place.
SleepResets ==
    /\ mpc = "sleep"
    /\ mpc' = "checkSignal"
    /\ signal_caught' = FALSE
    /\ UNCHANGED <<enumVars, plugged, exitVars>>

Sleep ==
    /\ mpc = "sleep"
    /\ mpc' = "checkSignal"
    /\ UNCHANGED <<enumVars, plugged, signal_caught, exitVars>>

\* The objects in the order in which on_sigint() cleans them up.
AllObjects == joycons["right"] \o joycons["left"] \o joycons["pro"]

CheckSignal ==
    /\ mpc = "checkSignal"
    /\ \/ /\ signal_caught
          /\ signal_caught' = FALSE
          /\ toClean' = AllObjects
          /\ mpc' = "cleanup"
       \/ /\ ~signal_caught
          /\ mpc' = "print"
          /\ UNCHANGED <<signal_caught, toClean>>
    /\ UNCHANGED <<enumVars, plugged, done, cleanups>>

\* Cleanup() of one controller returns.  Nothing makes it.
Cleanup ==
    /\ mpc = "cleanup"
    /\ toClean # <<>>
    /\ cleanups' = Append(cleanups, Head(toClean).dev)
    /\ toClean' = Tail(toClean)
    /\ UNCHANGED <<mpc, enumVars, plugged, signal_caught, done>>

\* Mutant: the loop goes on.
OnSigintGoesOn ==
    /\ mpc = "cleanup"
    /\ toClean = <<>>
    /\ mpc' = "print"
    /\ UNCHANGED <<enumVars, plugged, signal_caught, exitVars>>

OnSigintFinished ==
    /\ mpc = "cleanup"
    /\ toClean = <<>>
    /\ done' = TRUE
    /\ mpc' = "print"
    /\ UNCHANGED <<enumVars, plugged, signal_caught, toClean, cleanups>>

\* The values of FirstJoycon() are printed; then the loop goes on, or ends
\* with hid_exit().
LoopEnd ==
    /\ mpc = "print"
    /\ mpc' = IF done THEN "exited" ELSE "enumerate"
    /\ UNCHANGED <<enumVars, plugged, signal_caught, exitVars>>

-----------------------------------------------------------------------------
(* The environment.                                                        *)

\* closeEvent(), the signal handler.
CloseEvent ==
    /\ mpc \notin {"exited", "crashed"}
    /\ signal_caught' = TRUE
    /\ UNCHANGED <<mpc, enumVars, plugged, exitVars>>

Plug(d) ==
    /\ d \notin plugged
    /\ plugged' = plugged \union {d}
    /\ UNCHANGED <<mpc, enumVars, signal_caught, exitVars>>

Unplug(d) ==
    /\ d \in plugged
    /\ plugged' = plugged \ {d}
    /\ UNCHANGED <<mpc, enumVars, signal_caught, exitVars>>

MainProgress ==
    \/ HidEnumerate \/ Skip \/ Register \/ OpenFails \/ NextPass
    \/ FreeEnumeration \/ Sleep \/ CheckSignal \/ OnSigintFinished \/ LoopEnd

Next ==
    \/ MainProgress
    \/ Cleanup
    \/ CloseEvent
    \/ \E d \in Devices : Plug(d) \/ Unplug(d)

Spec == Init /\ [][Next]_vars

\* The main thread runs, except that it may stay in a Cleanup() for ever;
\* nothing is asked of the controllers or of ctrl-c.
FairSpec == Spec /\ WF_vars(MainProgress)

\* Every Cleanup() returns.  A controller that is connected and silent breaks
\* this: of JoyconLoop CleanupReturnsIfSending holds and CleanupReturns does not.
CleanupsReturn == WF_vars(Cleanup)

-----------------------------------------------------------------------------
Objects == [dev : Devices, num : Nat \ {0}]

TypeOK ==
    /\ mpc \in {"enumerate", "walk", "free", "sleep", "checkSignal", "cleanup",
                "print", "exited", "crashed"}
    /\ pass \in Types
    /\ cursor \in [Types -> Seq(Devices)]
    /\ nodes \in [Types -> SUBSET Devices]
    /\ i \in Nat
    /\ allct \in Nat
    /\ joycons \in [Types -> Seq(Objects)]
    /\ plugged \subseteq Devices
    /\ signal_caught \in BOOLEAN
    /\ done \in BOOLEAN
    /\ toClean \in Seq(Objects)
    /\ cleanups \in Seq(Devices)

\* Ctrl-c has come.
Stopping == signal_caught \/ mpc \in {"cleanup", "exited"} \/ done

Registered(d) == \E k \in DOMAIN joycons[TypeOf[d]] : joycons[TypeOf[d]][k].dev = d

(***************************************************************************)
(* No controller is opened twice, so no two threads read from one device,  *)
(* however the lists are ordered and whatever comes and goes.  About the   *)
(* test of i in enumerateJoycons().                                        *)
(***************************************************************************)
NoDeviceTwice ==
    \A t \in Types : \A j, k \in DOMAIN joycons[t] :
        joycons[t][j].dev = joycons[t][k].dev => j = k

(***************************************************************************)
(* The numbers given to the controllers, which their player lights show,   *)
(* are 1, 2, ... without gap or repetition, across the three vectors.      *)
(***************************************************************************)
NumbersUnique ==
    /\ \A j, k \in DOMAIN AllObjects :
           AllObjects[j].num = AllObjects[k].num => j = k
    /\ \A k \in DOMAIN AllObjects : AllObjects[k].num \in 1..Len(AllObjects)

(***************************************************************************)
(* When main() returns, Cleanup() has been called exactly once for every   *)
(* controller ever registered; a second call would wait for the datamtx    *)
(* that jcLoop() leaves locked.                                            *)
(***************************************************************************)
CleanedUpOnce ==
    /\ \A j, k \in DOMAIN cleanups : cleanups[j] = cleanups[k] => j = k
    /\ mpc = "exited" => \A d \in Devices : Registered(d) => d \in ToSet(cleanups)

(***************************************************************************)
(* If every Cleanup() returns, ctrl-c ends the program, unless it has      *)
(* crashed: at whatever point of the enumeration or of an earlier ctrl-c's *)
(* clean-up it comes, and however many controllers have to be cleaned up.  *)
(* About the flag signal_caught in main() and the loops of on_sigint().    *)
(***************************************************************************)
CtrlCEnds ==
    CleanupsReturn => (signal_caught ~> mpc \in {"exited", "crashed"})

(***************************************************************************)
(* While no controller of a type is registered, one that connects, and     *)
(* stays, is, unless ctrl-c comes: the program is "Waiting for             *)
(* connections."                                                           *)
(***************************************************************************)
FirstIsRegistered ==
    \A d \in Devices :
        (d \in plugged /\ joycons[TypeOf[d]] = <<>>) ~>
            \/ joycons[TypeOf[d]] # <<>>
            \/ d \notin plugged \/ Stopping \/ mpc = "crashed"

(***************************************************************************)
(* Every controller that connects, and stays, is registered.               *)
(***************************************************************************)
EveryOneIsRegistered ==
    \A d \in Devices :
        (d \in plugged) ~>
            \/ Registered(d)
            \/ d \notin plugged \/ Stopping \/ mpc = "crashed"

(***************************************************************************)
(* The lists of an enumeration have been freed when it is over.            *)
(***************************************************************************)
EnumerationFreed == mpc = "sleep" => \A t \in Types : nodes[t] = {}
=============================================================================

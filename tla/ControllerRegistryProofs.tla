---------------------- MODULE ControllerRegistryProofs ----------------------
(***************************************************************************)
(* No device is opened twice, the numbers are 1, 2, ... and every object   *)
(* is cleaned up once, for every set of controllers, every order of the    *)
(* lists and every way in which controllers come and go.                   *)
(*                                                                         *)
(* NoDeviceTwice is not inductive: Register appends the head of a list, so *)
(* what remains of that list must hold no registered device.  It does,     *)
(* since enumerateJoycons() registers from a list only when it found no    *)
(* controller of the type registered at its beginning, and then all of it. *)
(***************************************************************************)
EXTENDS ControllerRegistry, FiniteSetTheorems, TLAPS

Devs(t) == {joycons[t][k].dev : k \in DOMAIN joycons[t]}

NoRepeats(s) == \A j, k \in DOMAIN s : s[j] = s[k] => j = k

\* Either everything in the list is skipped, or nothing is, and then nothing
\* in it is registered.
ListFresh ==
    mpc = "walk" =>
        /\ NoRepeats(cursor[pass])
        /\ i <= Len(joycons[pass])
        /\ i = Len(joycons[pass]) =>
               \A k \in DOMAIN cursor[pass] : cursor[pass][k] \notin Devs(pass)

RInv == TypeOK /\ ListFresh /\ NoDeviceTwice

-----------------------------------------------------------------------------
(* A list of hid_enumerate() holds every connected device once.            *)
LEMMA Listing ==
    ASSUME NEW S, S \subseteq Devices, NEW list \in SetToSeqs(S)
    PROVE  list \in Seq(Devices) /\ list \in Seq(S) /\ NoRepeats(list)
<1>1. Cardinality(S) \in Nat
    BY FS_Subset, FS_CardinalityType, RegistryAssumption
<1>2. list \in [1..Cardinality(S) -> S]
    BY DEF SetToSeqs
<1>3. \A j, k \in 1..Cardinality(S) : j # k => list[j] # list[k]
    BY DEF SetToSeqs
<1>4. list \in Seq(S)
    BY <1>1, <1>2
<1>5. list \in Seq(Devices)
    BY <1>4
<1>6. NoRepeats(list)
    BY <1>2, <1>3 DEF NoRepeats
<1> QED
    BY <1>4, <1>5, <1>6

(* What remains of a list after its head.                                  *)
LEMMA TailOfList ==
    ASSUME NEW s \in Seq(Devices), s # <<>>
    PROVE  /\ Tail(s) \in Seq(Devices)
           /\ Head(s) \in Devices
           /\ \A k \in DOMAIN Tail(s) :
                  k + 1 \in DOMAIN s /\ Tail(s)[k] = s[k + 1] /\ k \in Nat
           /\ NoRepeats(s) => NoRepeats(Tail(s))
           /\ NoRepeats(s) => \A k \in DOMAIN Tail(s) : Tail(s)[k] # Head(s)
<1>1. /\ Tail(s) \in Seq(Devices)
      /\ Head(s) = s[1] /\ 1 \in DOMAIN s /\ Head(s) \in Devices
      /\ \A k \in DOMAIN Tail(s) :
             k + 1 \in DOMAIN s /\ Tail(s)[k] = s[k + 1] /\ k \in Nat /\ k # 0
    OBVIOUS
<1> QED
    BY <1>1 DEF NoRepeats

LEMMA InitRInv == Init => RInv
<1> SUFFICES ASSUME Init
             PROVE  RInv
    OBVIOUS
<1>1. TypeOK
    <2>1. /\ cursor = [t \in Types |-> <<>>] /\ cursor \in [Types -> Seq(Devices)]
          /\ joycons = [t \in Types |-> <<>>] /\ joycons \in [Types -> Seq(Objects)]
        BY DEF Init
    <2>2. /\ toClean = <<>> /\ toClean \in Seq(Objects)
          /\ cleanups = <<>> /\ cleanups \in Seq(Devices)
        BY DEF Init
    <2>3. nodes \in [Types -> SUBSET Devices] /\ plugged \subseteq Devices
        BY DEF Init
    <2> QED
        BY <2>1, <2>2, <2>3 DEF Init, TypeOK, Types
<1>2. ListFresh
    BY DEF Init, ListFresh
<1>3. \A t \in Types : joycons[t] = <<>> /\ DOMAIN joycons[t] = {}
    BY DEF Init
<1>4. NoDeviceTwice
    BY <1>3 DEF NoDeviceTwice
<1> QED
    BY <1>1, <1>2, <1>4 DEF RInv

-----------------------------------------------------------------------------
(* A step that leaves the objects and the list alone.                      *)
LEMMA QuietStep ==
    ASSUME RInv, TypeOK', joycons' = joycons, cursor' = cursor, i' = i,
           pass' = pass, mpc' = "walk" => mpc = "walk"
    PROVE  RInv'
BY DEF RInv, ListFresh, NoDeviceTwice, Devs, NoRepeats

(* hid_enumerate(): the counter is 0, so that the list is either skipped   *)
(* or all new.                                                             *)
LEMMA HidEnumerateStep ==
    ASSUME RInv, HidEnumerate
    PROVE  RInv'
<1> USE DEF RInv
<1>1. PICK list \in SetToSeqs(Connected(pass)) :
          cursor' = [cursor EXCEPT ![pass] = list]
    BY DEF HidEnumerate
<1>2. /\ i' = 0 /\ pass' = pass /\ joycons' = joycons /\ mpc' = "walk"
      /\ nodes' = [nodes EXCEPT ![pass] = @ \union Connected(pass)]
      /\ allct' = IF pass = "right" THEN Total ELSE allct
      /\ UNCHANGED <<plugged, signal_caught, done, toClean, cleanups>>
    BY DEF HidEnumerate, exitVars
<1>3. Connected(pass) \subseteq Devices
    BY DEF Connected, TypeOK
<1>4. list \in Seq(Devices) /\ NoRepeats(list)
    BY <1>3, Listing
<1>5. cursor'[pass] = list
    BY <1>1 DEF TypeOK
<1>6. Total \in Nat
    BY DEF TypeOK, Total, Types
<1>7. TypeOK'
    BY <1>1, <1>2, <1>3, <1>4, <1>6 DEF TypeOK
<1>8. i' <= Len(joycons'[pass'])
    BY <1>2 DEF TypeOK
<1>9. i' = Len(joycons'[pass']) =>
          \A k \in DOMAIN cursor'[pass'] : cursor'[pass'][k] \notin Devs(pass)'
    <2>1. SUFFICES ASSUME Len(joycons[pass]) = 0
                   PROVE  Devs(pass)' = {}
        BY <1>2
    <2>2. joycons[pass] \in Seq(Objects)
        BY DEF TypeOK
    <2>3. DOMAIN joycons[pass] = {}
        BY <2>1, <2>2
    <2> QED
        BY <2>3, <1>2 DEF Devs
<1>10. ListFresh'
    BY <1>2, <1>4, <1>5, <1>8, <1>9 DEF ListFresh
<1>11. NoDeviceTwice'
    BY <1>2 DEF NoDeviceTwice
<1> QED
    BY <1>7, <1>10, <1>11

LEMMA SkipStep ==
    ASSUME RInv, Skip
    PROVE  RInv'
<1> USE DEF RInv
<1>1. /\ cursor[pass] # <<>> /\ i < Len(joycons[pass]) /\ mpc = "walk"
      /\ cursor' = [cursor EXCEPT ![pass] = Tail(cursor[pass])]
      /\ UNCHANGED <<mpc, pass, nodes, i, allct, joycons, plugged,
                     signal_caught, done, toClean, cleanups>>
    BY DEF Skip, exitVars
<1>2. cursor[pass] \in Seq(Devices) /\ joycons[pass] \in Seq(Objects)
    BY DEF TypeOK
<1>3. Tail(cursor[pass]) \in Seq(Devices) /\ NoRepeats(Tail(cursor[pass]))
    BY <1>1, <1>2, TailOfList DEF ListFresh
<1>4. cursor'[pass] = Tail(cursor[pass])
    BY <1>1 DEF TypeOK
<1>5. TypeOK'
    BY <1>1, <1>3 DEF TypeOK
<1>6. ListFresh'
    BY <1>1, <1>2, <1>3, <1>4 DEF ListFresh, TypeOK
<1>7. NoDeviceTwice'
    BY <1>1 DEF NoDeviceTwice
<1> QED
    BY <1>5, <1>6, <1>7

LEMMA RegisterStep ==
    ASSUME RInv, Register
    PROVE  RInv'
<1> USE DEF RInv
<1> DEFINE d == Head(cursor[pass])
           o == [dev |-> d, num |-> allct + 1]
<1>1. /\ cursor[pass] # <<>> /\ i >= Len(joycons[pass]) /\ mpc = "walk"
      /\ cursor' = [cursor EXCEPT ![pass] = Tail(cursor[pass])]
      /\ joycons' = [joycons EXCEPT ![pass] = Append(joycons[pass], o)]
      /\ allct' = allct + 1 /\ i' = i + 1
      /\ UNCHANGED <<mpc, pass, nodes, plugged, signal_caught, done, toClean,
                     cleanups>>
    BY DEF Register, exitVars
<1>2. /\ cursor[pass] \in Seq(Devices) /\ joycons[pass] \in Seq(Objects)
      /\ i \in Nat /\ allct \in Nat /\ pass \in Types
    BY DEF TypeOK
<1>3. NoRepeats(cursor[pass]) /\ i = Len(joycons[pass])
    BY <1>1, <1>2 DEF ListFresh
<1>4. \A k \in DOMAIN cursor[pass] : cursor[pass][k] \notin Devs(pass)
    BY <1>1, <1>3 DEF ListFresh
<1>5. /\ Tail(cursor[pass]) \in Seq(Devices) /\ NoRepeats(Tail(cursor[pass]))
      /\ d \in Devices /\ d \notin Devs(pass)
      /\ \A k \in DOMAIN Tail(cursor[pass]) :
             Tail(cursor[pass])[k] # d /\ Tail(cursor[pass])[k] \notin Devs(pass)
    BY <1>1, <1>2, <1>3, <1>4, TailOfList
<1>6. o \in Objects
    BY <1>2, <1>5 DEF Objects
<1> HIDE DEF o
<1>7. /\ joycons'[pass] = Append(joycons[pass], o)
      /\ joycons'[pass] \in Seq(Objects)
      /\ Len(joycons'[pass]) = Len(joycons[pass]) + 1
      /\ DOMAIN joycons'[pass] = DOMAIN joycons[pass] \union {Len(joycons[pass]) + 1}
      /\ \A k \in DOMAIN joycons[pass] : joycons'[pass][k] = joycons[pass][k]
      /\ joycons'[pass][Len(joycons[pass]) + 1] = o
      /\ cursor'[pass] = Tail(cursor[pass])
    BY <1>1, <1>2, <1>6 DEF TypeOK
<1>8. \A t \in Types \ {pass} : joycons'[t] = joycons[t]
    BY <1>1 DEF TypeOK
<1>9. o.dev = d
    BY DEF o
<1>10. Devs(pass)' = Devs(pass) \union {d}
    BY <1>1, <1>7, <1>9 DEF Devs
<1>11. TypeOK'
    BY <1>1, <1>2, <1>5, <1>7, <1>8 DEF TypeOK
<1>12. ListFresh'
    <2>1. pass' = pass /\ i' = Len(joycons'[pass])
        BY <1>1, <1>3, <1>7
    <2>2. NoRepeats(cursor[pass])' /\ Len(joycons'[pass]) \in Nat
        BY <1>1, <1>2, <1>5, <1>7
    <2>3. \A k \in DOMAIN cursor'[pass] : cursor'[pass][k] \notin Devs(pass)'
        BY <1>5, <1>7, <1>10
    <2> QED
        BY <2>1, <2>2, <2>3 DEF ListFresh, Devs, NoRepeats
<1>13. NoDeviceTwice'
    <2>1. \A k \in DOMAIN joycons[pass] : joycons[pass][k].dev # d
        BY <1>5 DEF Devs
    <2>2. \A j, k \in DOMAIN joycons'[pass] :
              joycons'[pass][j].dev = joycons'[pass][k].dev => j = k
        BY <1>2, <1>7, <1>9, <2>1 DEF NoDeviceTwice
    <2> QED
        BY <1>8, <2>2 DEF NoDeviceTwice
<1> QED
    BY <1>11, <1>12, <1>13

-----------------------------------------------------------------------------
LEMMA RInvStep == RInv /\ [Next]_vars => RInv'
<1> SUFFICES ASSUME RInv, [Next]_vars
             PROVE  RInv'
    OBVIOUS
<1>1. TypeOK
    BY DEF RInv
<1>2. CASE HidEnumerate
    BY <1>2, HidEnumerateStep
<1>3. CASE Skip
    BY <1>3, SkipStep
<1>4. CASE Register
    BY <1>4, RegisterStep
<1>5. CASE OpenFails
    <2>1. TypeOK'
        BY <1>1, <1>5 DEF OpenFails, TypeOK, enumVars, exitVars
    <2> QED
        BY <1>5, <2>1, QuietStep DEF OpenFails, enumVars
<1>6. CASE NextPass
    <2>1. /\ mpc' # "walk" /\ joycons' = joycons
          /\ pass' \in Types /\ mpc' \in {"enumerate", "free"}
          /\ UNCHANGED <<cursor, nodes, i, allct, joycons, plugged,
                         signal_caught, done, toClean, cleanups>>
        BY <1>1, <1>6 DEF NextPass, Types, exitVars, TypeOK
    <2>2. TypeOK'
        BY <1>1, <2>1 DEF TypeOK
    <2> QED
        BY <2>1, <2>2 DEF RInv, ListFresh, NoDeviceTwice
<1>7. CASE FreeEnumeration
    <2>1. /\ mpc' = "sleep" /\ pass' = "right"
          /\ nodes' = [t \in Types |-> nodes[t] \ ToSet(cursor[t])]
          /\ UNCHANGED <<cursor, i, allct, joycons, plugged, signal_caught,
                         done, toClean, cleanups>>
        BY <1>7 DEF FreeEnumeration, exitVars
    <2>2. TypeOK'
        BY <1>1, <2>1 DEF TypeOK, Types
    <2> QED
        BY <2>1, <2>2 DEF RInv, ListFresh, NoDeviceTwice
<1>8. CASE Sleep
    <2>1. TypeOK'
        BY <1>1, <1>8 DEF Sleep, TypeOK, enumVars, exitVars
    <2> QED
        BY <1>8, <2>1, QuietStep DEF Sleep, enumVars
<1>9. CASE CheckSignal
    <2>1. AllObjects \in Seq(Objects)
        BY <1>1 DEF TypeOK, AllObjects, Types
    <2>2. /\ mpc' \in {"cleanup", "print"} /\ signal_caught' \in BOOLEAN
          /\ toClean' \in Seq(Objects)
          /\ UNCHANGED <<pass, cursor, nodes, i, allct, joycons, plugged, done,
                         cleanups>>
        BY <1>1, <1>9, <2>1 DEF CheckSignal, enumVars, TypeOK
    <2>3. TypeOK'
        BY <1>1, <2>2 DEF TypeOK
    <2> QED
        BY <2>2, <2>3, QuietStep
<1>10. CASE Cleanup
    <2>1. toClean # <<>> /\ toClean \in Seq(Objects) /\ cleanups \in Seq(Devices)
        BY <1>1, <1>10 DEF Cleanup, TypeOK
    <2>2. Head(toClean) \in Objects /\ Tail(toClean) \in Seq(Objects)
        BY <2>1
    <2>3. /\ toClean' \in Seq(Objects) /\ cleanups' \in Seq(Devices)
          /\ UNCHANGED <<mpc, pass, cursor, nodes, i, allct, joycons, plugged,
                         signal_caught, done>>
        BY <1>10, <2>1, <2>2 DEF Cleanup, Objects, enumVars
    <2>4. TypeOK'
        BY <1>1, <2>3 DEF TypeOK
    <2> QED
        BY <2>3, <2>4, QuietStep
<1>11. CASE OnSigintFinished
    <2>1. TypeOK'
        BY <1>1, <1>11 DEF OnSigintFinished, TypeOK, enumVars
    <2> QED
        BY <1>11, <2>1, QuietStep DEF OnSigintFinished, enumVars
<1>12. CASE LoopEnd
    <2>1. TypeOK'
        BY <1>1, <1>12 DEF LoopEnd, TypeOK, enumVars, exitVars
    <2> QED
        BY <1>12, <2>1, QuietStep DEF LoopEnd, enumVars
<1>13. CASE CloseEvent
    <2>1. TypeOK'
        BY <1>1, <1>13 DEF CloseEvent, TypeOK, enumVars, exitVars
    <2> QED
        BY <1>13, <2>1, QuietStep DEF CloseEvent, enumVars
<1>14. ASSUME NEW d \in Devices, Plug(d) \/ Unplug(d)
       PROVE  RInv'
    <2>1. TypeOK'
        BY <1>1, <1>14 DEF Plug, Unplug, TypeOK, enumVars, exitVars
    <2> QED
        BY <1>14, <2>1, QuietStep DEF Plug, Unplug, enumVars
<1>15. CASE UNCHANGED vars
    <2>1. TypeOK'
        BY <1>1, <1>15 DEF vars, TypeOK, enumVars, exitVars
    <2> QED
        BY <1>15, <2>1, QuietStep DEF vars, enumVars
<1> QED
    BY <1>2, <1>3, <1>4, <1>5, <1>6, <1>7, <1>8, <1>9, <1>10, <1>11, <1>12,
       <1>13, <1>14, <1>15 DEF Next, MainProgress

(***************************************************************************)
(* No controller is ever opened twice by enumerateJoycons(), and every     *)
(* variable keeps its type, for any set of controllers.                    *)
(***************************************************************************)
THEOREM NeverTwice == Spec => [](TypeOK /\ NoDeviceTwice)
<1>1. RInv => TypeOK /\ NoDeviceTwice
    BY DEF RInv
<1> QED
    BY InitRInv, RInvStep, <1>1, PTL DEF Spec

-----------------------------------------------------------------------------
(***************************************************************************)
(* The numbers and the clean-up.  Both properties speak of the three       *)
(* vectors one after the other, so they rest on where the objects of a     *)
(* vector are in that sequence.  Neither is inductive: a number is new     *)
(* because allct counts every object while a list is walked, and a device  *)
(* is cleaned up once because on_sigint() walks a sequence that cannot     *)
(* change any more, in which devices of different types differ.            *)
(***************************************************************************)
Before(t) == CASE t = "right" -> 0
               [] t = "left"  -> Len(joycons["right"])
               [] t = "pro"   -> Len(joycons["right"]) + Len(joycons["left"])

\* A list and a vector hold controllers of their own type.
Typed ==
    \A t \in Types :
        /\ \A k \in DOMAIN cursor[t] : TypeOf[cursor[t][k]] = t
        /\ \A k \in DOMAIN joycons[t] : TypeOf[joycons[t][k].dev] = t

\* allct is the number of objects while lists are walked, and every number is
\* one that allct has had.
Numbered ==
    /\ \A t, u \in Types : \A j \in DOMAIN joycons[t], k \in DOMAIN joycons[u] :
           joycons[t][j].num = joycons[u][k].num => t = u /\ j = k
    /\ \A t \in Types : \A j \in DOMAIN joycons[t] : joycons[t][j].num <= Total
    /\ mpc = "walk" \/ (mpc = "enumerate" /\ pass # "right") => allct = Total
    /\ mpc \in {"sleep", "checkSignal", "cleanup", "print"} => pass = "right"

Leaving == mpc = "cleanup" \/ done

\* on_sigint() is called once, and what it has done and what it has still to
\* do are the objects in their order.
Cleaned ==
    /\ mpc = "exited" => done
    /\ done => mpc \in {"print", "exited"} /\ toClean = <<>>
    /\ ~Leaving => cleanups = <<>>
    /\ Leaving =>
        /\ Len(cleanups) + Len(toClean) = Len(AllObjects)
        /\ \A k \in DOMAIN cleanups : cleanups[k] = AllObjects[k].dev
        /\ \A k \in DOMAIN toClean : toClean[k] = AllObjects[Len(cleanups) + k]

CInv == RInv /\ Typed /\ Numbered /\ Cleaned

(* Two sequences one after the other.                                      *)
LEMMA Join ==
    ASSUME NEW p \in Seq(Objects), NEW q \in Seq(Objects)
    PROVE  /\ p \o q \in Seq(Objects) /\ Len(p \o q) = Len(p) + Len(q)
           /\ \A k \in 1..Len(p) : (p \o q)[k] = p[k]
           /\ \A k \in 1..Len(q) : (p \o q)[Len(p) + k] = q[k]
OBVIOUS

(* Where the objects of a vector are among all of them.                    *)
LEMMA Concatenation ==
    ASSUME TypeOK
    PROVE  /\ AllObjects \in Seq(Objects)
           /\ Len(AllObjects) = Total /\ Total \in Nat
           /\ \A k \in DOMAIN AllObjects :
                  \E t \in Types : \E j \in DOMAIN joycons[t] :
                      k = Before(t) + j /\ AllObjects[k] = joycons[t][j]
           /\ \A t \in Types : \A j \in DOMAIN joycons[t] :
                  /\ Before(t) + j \in DOMAIN AllObjects
                  /\ AllObjects[Before(t) + j] = joycons[t][j]
<1> DEFINE a == joycons["right"]
           b == joycons["left"]
           c == joycons["pro"]
<1>1. a \in Seq(Objects) /\ b \in Seq(Objects) /\ c \in Seq(Objects)
    BY DEF TypeOK, Types
<1> HIDE DEF a, b, c
<1> DEFINE ab == a \o b
           all == ab \o c
<1>3. /\ ab \in Seq(Objects) /\ Len(ab) = Len(a) + Len(b)
      /\ \A k \in 1..Len(a) : ab[k] = a[k]
      /\ \A k \in 1..Len(b) : ab[Len(a) + k] = b[k]
    BY <1>1, Join
<1> HIDE DEF ab
<1>4. /\ all \in Seq(Objects) /\ Len(all) = Len(ab) + Len(c)
      /\ \A k \in 1..Len(ab) : all[k] = ab[k]
      /\ \A k \in 1..Len(c) : all[Len(ab) + k] = c[k]
    BY <1>1, <1>3, Join
<1>5. AllObjects = all
    BY DEF AllObjects, all, ab, a, b, c
<1> HIDE DEF all
<1>6. /\ Len(a) \in Nat /\ Len(b) \in Nat /\ Len(c) \in Nat
      /\ DOMAIN a = 1..Len(a) /\ DOMAIN b = 1..Len(b) /\ DOMAIN c = 1..Len(c)
      /\ DOMAIN all = 1..Len(all)
    BY <1>1, <1>4
<1>7. Len(all) = Total /\ Total \in Nat
    <2>1. Total = Len(a) + Len(b) + Len(c)
        BY DEF Total, a, b, c
    <2> QED
        BY <2>1, <1>3, <1>4, <1>6
<1>8. /\ Before("right") = 0 /\ Before("left") = Len(a)
      /\ Before("pro") = Len(a) + Len(b)
    BY DEF Before, a, b
<1>9. /\ \A j \in DOMAIN a : 0 + j \in DOMAIN all /\ all[0 + j] = a[j]
      /\ \A j \in DOMAIN b : Len(a) + j \in DOMAIN all /\ all[Len(a) + j] = b[j]
      /\ \A j \in DOMAIN c : /\ Len(a) + Len(b) + j \in DOMAIN all
                            /\ all[Len(a) + Len(b) + j] = c[j]
    <2>1. ASSUME NEW j \in DOMAIN a
          PROVE  0 + j \in DOMAIN all /\ all[0 + j] = a[j]
        <3>1. j \in 1..Len(a) /\ 0 + j = j /\ j \in 1..Len(ab)
            BY <1>3, <1>6
        <3> QED
            BY <3>1, <1>3, <1>4, <1>6
    <2>2. ASSUME NEW j \in DOMAIN b
          PROVE  Len(a) + j \in DOMAIN all /\ all[Len(a) + j] = b[j]
        <3>1. j \in 1..Len(b) /\ Len(a) + j \in 1..Len(ab)
            BY <1>3, <1>6
        <3> QED
            BY <3>1, <1>3, <1>4, <1>6
    <2>3. ASSUME NEW j \in DOMAIN c
          PROVE  /\ Len(a) + Len(b) + j \in DOMAIN all
                 /\ all[Len(a) + Len(b) + j] = c[j]
        <3>1. j \in 1..Len(c) /\ Len(a) + Len(b) + j = Len(ab) + j
            BY <1>3, <1>6
        <3> QED
            BY <3>1, <1>3, <1>4, <1>6
    <2> QED
        BY <2>1, <2>2, <2>3
<1>10. \A t \in Types : \A j \in DOMAIN joycons[t] :
           /\ Before(t) + j \in DOMAIN AllObjects
           /\ AllObjects[Before(t) + j] = joycons[t][j]
    <2>1. SUFFICES ASSUME NEW t \in Types, NEW j \in DOMAIN joycons[t]
                   PROVE  /\ Before(t) + j \in DOMAIN all
                          /\ all[Before(t) + j] = joycons[t][j]
        BY <1>5
    <2>2. CASE t = "right"
        BY <2>2, <1>8, <1>9 DEF a
    <2>3. CASE t = "left"
        BY <2>3, <1>8, <1>9 DEF b
    <2>4. CASE t = "pro"
        BY <2>4, <1>8, <1>9 DEF c
    <2> QED
        BY <2>2, <2>3, <2>4 DEF Types
<1>11. ASSUME NEW k \in DOMAIN AllObjects
       PROVE  \E t \in Types : \E j \in DOMAIN joycons[t] : k = Before(t) + j
    <2>1. k \in 1..Len(all) /\ Len(all) = Len(a) + Len(b) + Len(c)
        BY <1>3, <1>4, <1>5, <1>6
    <2>2. CASE k <= Len(a)
        <3>1. k \in DOMAIN joycons["right"] /\ k = Before("right") + k
            BY <2>1, <2>2, <1>6, <1>8 DEF a
        <3> QED
            BY <3>1 DEF Types
    <2>3. CASE k > Len(a) /\ k <= Len(a) + Len(b)
        <3>1. /\ k - Len(a) \in DOMAIN joycons["left"]
              /\ k = Before("left") + (k - Len(a))
            <4>1. k - Len(a) \in DOMAIN b /\ k = Len(a) + (k - Len(a))
                BY <2>1, <2>3, <1>6
            <4> QED
                BY <4>1, <1>8 DEF b
        <3> QED
            BY <3>1 DEF Types
    <2>4. CASE k > Len(a) + Len(b)
        <3>1. /\ k - (Len(a) + Len(b)) \in DOMAIN joycons["pro"]
              /\ k = Before("pro") + (k - (Len(a) + Len(b)))
            <4>1. /\ k - (Len(a) + Len(b)) \in DOMAIN c
                  /\ k = Len(a) + Len(b) + (k - (Len(a) + Len(b)))
                BY <2>1, <2>4, <1>6
            <4> QED
                BY <4>1, <1>8 DEF c
        <3> QED
            BY <3>1 DEF Types
    <2> QED
        BY <2>1, <2>2, <2>3, <2>4, <1>6
<1> QED
    BY <1>4, <1>5, <1>7, <1>10, <1>11

(* The properties follow.                                                  *)
LEMMA NumbersFollow == CInv => NumbersUnique
<1> SUFFICES ASSUME CInv
             PROVE  NumbersUnique
    OBVIOUS
<1>1. TypeOK /\ Numbered
    BY DEF CInv, RInv
<1>2. ASSUME NEW j \in DOMAIN AllObjects, NEW k \in DOMAIN AllObjects,
             AllObjects[j].num = AllObjects[k].num
      PROVE  j = k
    <2>owner. PICK t \in Types : \E m \in DOMAIN joycons[t] :
              j = Before(t) + m /\ AllObjects[j] = joycons[t][m]
        BY <1>1, Concatenation
    <2>1. PICK m \in DOMAIN joycons[t] :
              j = Before(t) + m /\ AllObjects[j] = joycons[t][m]
        BY <2>owner
    <2>other. PICK u \in Types : \E n \in DOMAIN joycons[u] :
              k = Before(u) + n /\ AllObjects[k] = joycons[u][n]
        BY <1>1, Concatenation
    <2>2. PICK n \in DOMAIN joycons[u] :
              k = Before(u) + n /\ AllObjects[k] = joycons[u][n]
        BY <2>other
    <2>3. t = u /\ m = n
        BY <1>1, <1>2, <2>1, <2>2 DEF Numbered
    <2> QED
        BY <2>1, <2>2, <2>3
<1>3. ASSUME NEW k \in DOMAIN AllObjects
      PROVE  AllObjects[k].num \in 1..Len(AllObjects)
    <2>owner. PICK t \in Types : \E m \in DOMAIN joycons[t] : AllObjects[k] = joycons[t][m]
        BY <1>1, Concatenation
    <2>1. PICK m \in DOMAIN joycons[t] : AllObjects[k] = joycons[t][m]
        BY <2>owner
    <2>2. joycons[t] \in Seq(Objects)
        BY <1>1 DEF TypeOK
    <2>3. joycons[t][m].num \in Nat \ {0}
        <3>1. joycons[t][m] \in Objects
            BY <2>2
        <3> QED
            BY <3>1 DEF Objects
    <2>4. joycons[t][m].num <= Total
        BY <1>1 DEF Numbered
    <2> QED
        BY <1>1, <2>1, <2>3, <2>4, Concatenation
<1> QED
    BY <1>2, <1>3 DEF NumbersUnique

LEMMA CleanUpFollows == CInv => CleanedUpOnce
<1> SUFFICES ASSUME CInv
             PROVE  CleanedUpOnce
    OBVIOUS
<1>1. TypeOK /\ Typed /\ NoDeviceTwice /\ Cleaned
    BY DEF CInv, RInv
<1>2. AllObjects \in Seq(Objects) /\ cleanups \in Seq(Devices)
      /\ toClean \in Seq(Objects)
    BY <1>1, Concatenation DEF TypeOK
<1>3. ASSUME NEW j \in DOMAIN AllObjects, NEW k \in DOMAIN AllObjects,
             AllObjects[j].dev = AllObjects[k].dev
      PROVE  j = k
    <2>owner. PICK t \in Types : \E m \in DOMAIN joycons[t] :
              j = Before(t) + m /\ AllObjects[j] = joycons[t][m]
        BY <1>1, Concatenation
    <2>1. PICK m \in DOMAIN joycons[t] :
              j = Before(t) + m /\ AllObjects[j] = joycons[t][m]
        BY <2>owner
    <2>other. PICK u \in Types : \E n \in DOMAIN joycons[u] :
              k = Before(u) + n /\ AllObjects[k] = joycons[u][n]
        BY <1>1, Concatenation
    <2>2. PICK n \in DOMAIN joycons[u] :
              k = Before(u) + n /\ AllObjects[k] = joycons[u][n]
        BY <2>other
    <2>3. t = u
        BY <1>1, <1>3, <2>1, <2>2 DEF Typed
    <2>4. m = n
        BY <1>1, <1>3, <2>1, <2>2, <2>3 DEF NoDeviceTwice
    <2> QED
        BY <2>1, <2>2, <2>3, <2>4
<1>4. ASSUME NEW j \in DOMAIN cleanups, NEW k \in DOMAIN cleanups,
             cleanups[j] = cleanups[k]
      PROVE  j = k
    <2>1. Leaving
        BY <1>1, <1>4 DEF Cleaned
    <2>2. DOMAIN cleanups \subseteq DOMAIN AllObjects
        BY <1>1, <1>2, <2>1 DEF Cleaned
    <2>3. AllObjects[j].dev = AllObjects[k].dev
        BY <1>1, <1>4, <2>1 DEF Cleaned
    <2> QED
        BY <1>3, <2>2, <2>3
<1>5. ASSUME mpc = "exited", NEW d \in Devices, Registered(d)
      PROVE  d \in ToSet(cleanups)
    <2>1. Leaving /\ toClean = <<>>
        BY <1>1, <1>5 DEF Cleaned, Leaving
    <2>2. Len(cleanups) = Len(AllObjects)
        BY <1>1, <1>2, <2>1 DEF Cleaned
    <2>3. PICK m \in DOMAIN joycons[TypeOf[d]] : joycons[TypeOf[d]][m].dev = d
        BY <1>5 DEF Registered
    <2>4. TypeOf[d] \in Types
        BY RegistryAssumption
    <2>5. PICK k \in DOMAIN AllObjects : AllObjects[k] = joycons[TypeOf[d]][m]
        BY <1>1, <2>3, <2>4, Concatenation
    <2>6. k \in DOMAIN cleanups
        BY <1>2, <2>2
    <2>7. cleanups[k] = d
        BY <1>1, <2>1, <2>3, <2>5, <2>6 DEF Cleaned
    <2> QED
        BY <2>6, <2>7 DEF ToSet
<1> QED
    BY <1>4, <1>5 DEF CleanedUpOnce

-----------------------------------------------------------------------------
LEMMA InitCInv == Init => CInv
<1> SUFFICES ASSUME Init
             PROVE  CInv
    OBVIOUS
<1>1. RInv
    BY InitRInv
<1>2. \A t \in Types : /\ joycons[t] = <<>> /\ DOMAIN joycons[t] = {}
                       /\ cursor[t] = <<>> /\ DOMAIN cursor[t] = {}
    BY DEF Init
<1>3. Typed
    BY <1>2 DEF Typed
<1>4. Numbered
    BY <1>2 DEF Numbered, Init
<1>5. Cleaned
    BY DEF Cleaned, Leaving, Init
<1> QED
    BY <1>1, <1>3, <1>4, <1>5 DEF CInv

(* What a step does with the objects.                                      *)
LEMMA Moves ==
    ASSUME [Next]_vars
    PROVE  \/ HidEnumerate \/ Skip \/ Register
           \/ joycons' = joycons /\ cursor' = cursor
BY DEF Next, MainProgress, OpenFails, NextPass, FreeEnumeration, Sleep, CheckSignal,
       Cleanup, OnSigintFinished, LoopEnd, CloseEvent, Plug, Unplug, vars, enumVars

LEMMA TypedStep ==
    ASSUME RInv, Typed, [Next]_vars
    PROVE  Typed'
<1>1. TypeOK
    BY DEF RInv
<1>2. CASE HidEnumerate
    <2>1. PICK list \in SetToSeqs(Connected(pass)) :
              cursor' = [cursor EXCEPT ![pass] = list]
        BY <1>2 DEF HidEnumerate
    <2>2. Connected(pass) \subseteq Devices
        BY <1>1 DEF Connected, TypeOK
    <2>3. list \in Seq(Connected(pass))
        BY <2>2, Listing
    <2>4. \A k \in DOMAIN list : list[k] \in Connected(pass)
        BY <2>3
    <2>5. \A k \in DOMAIN list : TypeOf[list[k]] = pass
        BY <2>4 DEF Connected
    <2>6. joycons' = joycons
        BY <1>2 DEF HidEnumerate
    <2> QED
        BY <1>1, <2>1, <2>5, <2>6 DEF Typed, TypeOK
<1>3. ASSUME Skip \/ Register
      PROVE  \A t \in Types : \A k \in DOMAIN cursor'[t] : TypeOf[cursor'[t][k]] = t
    <2>1. /\ cursor' = [cursor EXCEPT ![pass] = Tail(cursor[pass])]
          /\ cursor[pass] # <<>> /\ cursor[pass] \in Seq(Devices) /\ pass \in Types
        BY <1>1, <1>3 DEF Skip, Register, TypeOK
    <2>2. \A k \in DOMAIN Tail(cursor[pass]) : TypeOf[Tail(cursor[pass])[k]] = pass
        BY <2>1, TailOfList DEF Typed
    <2> QED
        BY <1>1, <2>1, <2>2 DEF Typed, TypeOK
<1>4. CASE Skip
    <2>1. joycons' = joycons
        BY <1>4 DEF Skip
    <2> QED
        BY <1>3, <1>4, <2>1 DEF Typed
<1>5. CASE Register
    <2> DEFINE o == [dev |-> Head(cursor[pass]), num |-> allct + 1]
    <2>1. /\ joycons' = [joycons EXCEPT ![pass] = Append(joycons[pass], o)]
          /\ cursor[pass] # <<>> /\ cursor[pass] \in Seq(Devices) /\ pass \in Types
          /\ joycons[pass] \in Seq(Objects) /\ allct \in Nat
        BY <1>1, <1>5 DEF Register, TypeOK
    <2>2. o.dev = cursor[pass][1] /\ 1 \in DOMAIN cursor[pass] /\ o.dev \in Devices
        BY <2>1
    <2>3. TypeOf[o.dev] = pass /\ o \in Objects
        BY <2>1, <2>2 DEF Typed, Objects
    <2> HIDE DEF o
    <2>4. /\ joycons'[pass] = Append(joycons[pass], o)
          /\ \A k \in DOMAIN Append(joycons[pass], o) :
                 \/ k \in DOMAIN joycons[pass]
                    /\ Append(joycons[pass], o)[k] = joycons[pass][k]
                 \/ Append(joycons[pass], o)[k] = o
        BY <1>1, <2>1, <2>3 DEF TypeOK
    <2>5. \A k \in DOMAIN joycons'[pass] : TypeOf[joycons'[pass][k].dev] = pass
        BY <2>1, <2>3, <2>4 DEF Typed
    <2>6. \A t \in Types \ {pass} : joycons'[t] = joycons[t]
        BY <1>1, <2>1 DEF TypeOK
    <2> QED
        BY <1>3, <1>5, <2>5, <2>6 DEF Typed
<1>6. CASE joycons' = joycons /\ cursor' = cursor
    BY <1>6 DEF Typed
<1> QED
    BY <1>2, <1>4, <1>5, <1>6, Moves

LEMMA NumberedStep ==
    ASSUME RInv, Numbered, [Next]_vars
    PROVE  Numbered'
<1>1. TypeOK
    BY DEF RInv
<1>2. CASE Register
    <2> DEFINE o == [dev |-> Head(cursor[pass]), num |-> allct + 1]
    <2>1. /\ joycons' = [joycons EXCEPT ![pass] = Append(joycons[pass], o)]
          /\ cursor[pass] # <<>> /\ cursor[pass] \in Seq(Devices) /\ pass \in Types
          /\ joycons[pass] \in Seq(Objects) /\ allct \in Nat
          /\ mpc = "walk" /\ mpc' = mpc /\ allct' = allct + 1
        BY <1>1, <1>2 DEF Register, TypeOK
    <2>2. allct = Total
        BY <2>1 DEF Numbered
    <2>3. o.num = Total + 1 /\ o \in Objects
        BY <2>1, <2>2, TailOfList DEF Objects
    <2> HIDE DEF o
    <2>4. /\ joycons'[pass] = Append(joycons[pass], o)
          /\ Len(joycons'[pass]) = Len(joycons[pass]) + 1
          /\ DOMAIN joycons'[pass] = DOMAIN joycons[pass] \union {Len(joycons[pass]) + 1}
          /\ Len(joycons[pass]) + 1 \notin DOMAIN joycons[pass]
          /\ \A k \in DOMAIN joycons[pass] : joycons'[pass][k] = joycons[pass][k]
          /\ joycons'[pass][Len(joycons[pass]) + 1] = o
        BY <1>1, <2>1, <2>3 DEF TypeOK
    <2>5. \A t \in Types \ {pass} : joycons'[t] = joycons[t]
        BY <1>1, <2>1 DEF TypeOK
    <2>6. \A t \in Types : Len(joycons[t]) \in Nat
        BY <1>1 DEF TypeOK
    <2>7. Total' = Total + 1 /\ Total \in Nat
        <3>1. \A t \in Types : Len(joycons'[t]) = IF t = pass THEN Len(joycons[t]) + 1
                                                            ELSE Len(joycons[t])
            BY <2>4, <2>5
        <3>2. "right" \in Types /\ "left" \in Types /\ "pro" \in Types
            BY DEF Types
        <3> DEFINE r == Len(joycons["right"])
                   l == Len(joycons["left"])
                   p == Len(joycons["pro"])
        <3>3. r \in Nat /\ l \in Nat /\ p \in Nat /\ Total = r + l + p
            BY <2>6, <3>2 DEF Total
        <3>4. /\ Len(joycons'["right"]) = IF pass = "right" THEN r + 1 ELSE r
              /\ Len(joycons'["left"]) = IF pass = "left" THEN l + 1 ELSE l
              /\ Len(joycons'["pro"]) = IF pass = "pro" THEN p + 1 ELSE p
            BY <3>1, <3>2
        <3>5. Total' = Len(joycons'["right"]) + Len(joycons'["left"])
                         + Len(joycons'["pro"])
            BY DEF Total
        <3> HIDE DEF r, l, p
        <3>6. pass = "right" \/ pass = "left" \/ pass = "pro"
            BY <2>1 DEF Types
        <3> QED
            BY <3>3, <3>4, <3>5, <3>6
    <2> DEFINE n == Len(joycons[pass]) + 1
               Old(t, j) == j \in DOMAIN joycons[t] /\ joycons'[t][j] = joycons[t][j]
               New(t, j) == t = pass /\ j = n /\ joycons'[t][j].num = Total + 1
    <2>8. \A t \in Types : \A j \in DOMAIN joycons'[t] : Old(t, j) \/ New(t, j)
        BY <2>3, <2>4, <2>5
    <2>9. \A t \in Types : \A j \in DOMAIN joycons[t] :
              joycons[t][j].num \in Nat /\ joycons[t][j].num <= Total
        <3>1. \A t \in Types : \A j \in DOMAIN joycons[t] : joycons[t][j] \in Objects
            <4>1. \A t \in Types : joycons[t] \in Seq(Objects)
                BY <1>1 DEF TypeOK
            <4> QED
                BY <4>1
        <3> QED
            BY <3>1 DEF Numbered, Objects
    <2>10. ASSUME NEW t \in Types, NEW u \in Types, NEW j \in DOMAIN joycons'[t],
                  NEW k \in DOMAIN joycons'[u],
                  joycons'[t][j].num = joycons'[u][k].num
           PROVE  t = u /\ j = k
        <3>1. CASE Old(t, j) /\ Old(u, k)
            BY <2>10, <3>1 DEF Numbered
        <3>2. CASE Old(t, j) /\ New(u, k)
            BY <2>7, <2>9, <2>10, <3>2
        <3>3. CASE New(t, j) /\ Old(u, k)
            BY <2>7, <2>9, <2>10, <3>3
        <3>4. CASE New(t, j) /\ New(u, k)
            BY <3>4
        <3> QED
            BY <2>8, <3>1, <3>2, <3>3, <3>4
    <2>11. ASSUME NEW t \in Types, NEW j \in DOMAIN joycons'[t]
           PROVE  joycons'[t][j].num <= Total'
        BY <2>7, <2>8, <2>9
    <2>12. allct' = Total'
        BY <2>1, <2>2, <2>7
    <2> QED
        BY <2>1, <2>10, <2>11, <2>12 DEF Numbered
<1>3. ASSUME joycons' = joycons,
             mpc' = "walk" \/ (mpc' = "enumerate" /\ pass' # "right") => allct' = Total,
             mpc' \in {"sleep", "checkSignal", "cleanup", "print"} => pass' = "right"
      PROVE  Numbered'
    BY <1>3 DEF Numbered, Total
<1>4. CASE HidEnumerate
    BY <1>3, <1>4 DEF HidEnumerate, Numbered
<1>5. CASE Skip
    BY <1>3, <1>5 DEF Skip, Numbered
<1>6. CASE OpenFails
    BY <1>3, <1>6 DEF OpenFails, enumVars
<1>7. CASE NextPass
    BY <1>3, <1>7 DEF NextPass, Numbered
<1>8. CASE FreeEnumeration
    BY <1>3, <1>8 DEF FreeEnumeration
<1>9. CASE Sleep \/ CheckSignal \/ OnSigintFinished
    BY <1>3, <1>9 DEF Sleep, CheckSignal, OnSigintFinished, enumVars, Numbered
<1>10. CASE LoopEnd
    BY <1>3, <1>10 DEF LoopEnd, enumVars, Numbered
<1>11. CASE Cleanup \/ CloseEvent
    BY <1>3, <1>11 DEF Cleanup, CloseEvent, enumVars, Numbered
<1>12. ASSUME NEW d \in Devices, Plug(d) \/ Unplug(d)
       PROVE  Numbered'
    BY <1>3, <1>12 DEF Plug, Unplug, enumVars, Numbered
<1>13. CASE UNCHANGED vars
    BY <1>3, <1>13 DEF vars, enumVars, Numbered
<1> QED
    BY <1>2, <1>4, <1>5, <1>6, <1>7, <1>8, <1>9, <1>10, <1>11, <1>12, <1>13
       DEF Next, MainProgress

LEMMA CleanedStep ==
    ASSUME RInv, Cleaned, [Next]_vars
    PROVE  Cleaned'
<1>1. TypeOK
    BY DEF RInv
<1>2. /\ AllObjects \in Seq(Objects) /\ toClean \in Seq(Objects)
      /\ cleanups \in Seq(Devices)
    BY <1>1, Concatenation DEF TypeOK
<1>3. CASE HidEnumerate \/ Skip \/ Register \/ OpenFails \/ NextPass
           \/ FreeEnumeration \/ Sleep
    <2>1. /\ mpc \in {"enumerate", "walk", "free", "sleep"}
          /\ mpc' \in {"enumerate", "walk", "free", "sleep", "checkSignal", "crashed"}
          /\ UNCHANGED <<done, toClean, cleanups>>
        BY <1>3 DEF HidEnumerate, Skip, Register, OpenFails, NextPass,
                    FreeEnumeration, Sleep, exitVars
    <2>2. ~Leaving /\ ~Leaving' /\ ~done'
        BY <2>1 DEF Leaving, Cleaned
    <2> QED
        BY <2>1, <2>2 DEF Cleaned
<1>4. ASSUME joycons' = joycons
      PROVE  AllObjects' = AllObjects
    BY <1>4 DEF AllObjects
<1>5. CASE CheckSignal
    <2>1. ~done /\ ~done' /\ cleanups = <<>> /\ cleanups' = <<>>
        BY <1>5 DEF CheckSignal, Cleaned, Leaving
    <2>2. AllObjects' = AllObjects
        BY <1>4, <1>5 DEF CheckSignal, enumVars
    <2>3. /\ mpc' \in {"cleanup", "print"}
          /\ mpc' = "cleanup" => toClean' = AllObjects
        BY <1>5 DEF CheckSignal
    <2>4. DOMAIN cleanups' = {} /\ Len(cleanups') = 0
        BY <2>1
    <2>5. ASSUME mpc' = "cleanup"
          PROVE  /\ Len(cleanups') + Len(toClean') = Len(AllObjects')
                 /\ \A k \in DOMAIN toClean' :
                        toClean'[k] = AllObjects'[Len(cleanups') + k]
        BY <1>2, <2>2, <2>3, <2>4, <2>5
    <2> QED
        BY <2>1, <2>3, <2>4, <2>5 DEF Cleaned, Leaving
<1>6. CASE Cleanup
    <2>1. /\ Leaving /\ Leaving' /\ ~done /\ ~done' /\ mpc' = "cleanup"
          /\ toClean # <<>>
          /\ cleanups' = Append(cleanups, Head(toClean).dev)
          /\ toClean' = Tail(toClean)
        BY <1>6 DEF Cleanup, Leaving, Cleaned
    <2>2. AllObjects' = AllObjects
        BY <1>4, <1>6 DEF Cleanup, enumVars
    <2> DEFINE n == Len(cleanups)
               e == Head(toClean).dev
    <2>3. /\ n + Len(toClean) = Len(AllObjects)
          /\ \A k \in DOMAIN cleanups : cleanups[k] = AllObjects[k].dev
          /\ \A k \in DOMAIN toClean : toClean[k] = AllObjects[n + k]
        BY <2>1 DEF Cleaned
    <2>4. /\ Head(toClean) = toClean[1] /\ 1 \in DOMAIN toClean
          /\ Head(toClean) \in Objects /\ Len(Tail(toClean)) = Len(toClean) - 1
          /\ \A k \in DOMAIN Tail(toClean) :
                 k + 1 \in DOMAIN toClean /\ Tail(toClean)[k] = toClean[k + 1]
                 /\ k \in Nat
        BY <1>2, <2>1
    <2>5. e = AllObjects[n + 1].dev /\ e \in Devices
        BY <2>3, <2>4 DEF Objects
    <2> HIDE DEF e
    <2>6. /\ Len(cleanups') = n + 1 /\ n \in Nat /\ Len(toClean) \in Nat
          /\ \A k \in DOMAIN cleanups' :
                 \/ k \in DOMAIN cleanups /\ cleanups'[k] = cleanups[k]
                 \/ k = n + 1 /\ cleanups'[k] = e
        <3>1. cleanups' = Append(cleanups, e)
            BY <2>1 DEF e
        <3> QED
            BY <1>2, <2>5, <3>1
    <2>7. Len(cleanups') + Len(toClean') = Len(AllObjects')
        BY <2>1, <2>2, <2>3, <2>4, <2>6
    <2>8. \A k \in DOMAIN cleanups' : cleanups'[k] = AllObjects'[k].dev
        BY <2>2, <2>3, <2>5, <2>6
    <2>9. \A k \in DOMAIN toClean' : toClean'[k] = AllObjects'[Len(cleanups') + k]
        <3>1. SUFFICES ASSUME NEW k \in DOMAIN Tail(toClean)
                       PROVE  Tail(toClean)[k] = AllObjects[(n + 1) + k]
            BY <2>1, <2>2, <2>6
        <3>2. Tail(toClean)[k] = AllObjects[n + (k + 1)] /\ k \in Nat
            BY <2>3, <2>4
        <3>3. n + (k + 1) = (n + 1) + k
            BY <2>6, <3>2
        <3> QED
            BY <3>2, <3>3
    <2> QED
        BY <2>1, <2>7, <2>8, <2>9 DEF Cleaned
<1>7. CASE OnSigintFinished
    <2>1. /\ mpc = "cleanup" /\ toClean = <<>> /\ done' /\ mpc' = "print"
          /\ UNCHANGED <<toClean, cleanups>> /\ AllObjects' = AllObjects
        BY <1>4, <1>7 DEF OnSigintFinished, enumVars
    <2> QED
        BY <2>1 DEF Cleaned, Leaving
<1>8. CASE LoopEnd
    <2>1. /\ mpc = "print" /\ mpc' = (IF done THEN "exited" ELSE "enumerate")
          /\ UNCHANGED <<done, toClean, cleanups>> /\ AllObjects' = AllObjects
        BY <1>4, <1>8 DEF LoopEnd, enumVars, exitVars
    <2> QED
        BY <2>1 DEF Cleaned, Leaving
<1>9. ASSUME UNCHANGED <<mpc, joycons, done, toClean, cleanups>>
      PROVE  Cleaned'
    <2>1. AllObjects' = AllObjects
        BY <1>4, <1>9
    <2> QED
        BY <1>9, <2>1 DEF Cleaned, Leaving
<1>10. CASE CloseEvent \/ UNCHANGED vars
    BY <1>9, <1>10 DEF CloseEvent, vars, enumVars, exitVars
<1>11. ASSUME NEW d \in Devices, Plug(d) \/ Unplug(d)
       PROVE  Cleaned'
    BY <1>9, <1>11 DEF Plug, Unplug, enumVars, exitVars
<1> QED
    BY <1>3, <1>5, <1>6, <1>7, <1>8, <1>10, <1>11 DEF Next, MainProgress

LEMMA CInvStep == CInv /\ [Next]_vars => CInv'
BY RInvStep, TypedStep, NumberedStep, CleanedStep DEF CInv

(***************************************************************************)
(* The numbers on the controllers' lights are 1, 2, ... without repetition *)
(* across the three vectors of main(), for any set of controllers and any  *)
(* pattern of connections.                                                 *)
(***************************************************************************)
THEOREM NumbersSound == Spec => []NumbersUnique
<1> QED
    BY InitCInv, CInvStep, NumbersFollow, PTL DEF Spec

(***************************************************************************)
(* on_sigint() cleans every registered controller up, and none of them     *)
(* twice, whenever ctrl-c is pressed and however often.                    *)
(***************************************************************************)
THEOREM CleanUpSound == Spec => []CleanedUpOnce
<1> QED
    BY InitCInv, CInvStep, CleanUpFollows, PTL DEF Spec
=============================================================================

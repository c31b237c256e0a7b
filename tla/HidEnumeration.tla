--------------------------- MODULE HidEnumeration ---------------------------
(***************************************************************************)
(* hid_open() of hidapi's four hid.c: hid_enumerate() makes a linked list  *)
(* of the devices that are wanted, hid_open() looks for the first that has *)
(* the right serial number, opens its path, and hid_free_enumeration()     *)
(* gives the list back.  What the loop of hid_enumerate() does with one    *)
(* device differs; the list, the search and the freeing are the same.      *)
(*                                                                         *)
(* The list is nodes linked by `next`; its domain is the nodes that are    *)
(* allocated, and NULL is 0.  The vendor and product of a device are one   *)
(* number, of which 0 stands for any.                                      *)
(***************************************************************************)
EXTENDS Naturals, Sequences, SequencesExt

CONSTANTS
    Backends,      (* which hid.c may be linked *)
    Ids,           (* vendor and product of the devices *)
    Serials,       (* serial numbers *)
    Inputs         (* bound: the lists of devices the system may report *)

AnyId == 0
NoSerial == "NULL"
NULL == 0

\* What can happen to hid_enumerate() with a device, apart from the comparison
\* of its vendor and product.
Conditions ==
    [mac     |-> {"listed", "null"},
     windows |-> {"listed", "noDetail", "unopenable"},
     linux   |-> {"bluetooth", "usb", "orphan", "noNode", "otherBus",
                 "noUevent"},
     libusb  |-> {"noHid", "listed", "twice"}]

Devices == [id : Ids, serial : Serials \union {NoSerial},
            cond : UNION {Conditions[b] : b \in Backends}]

ASSUME EnumerationAssumption ==
    /\ Backends \subseteq {"mac", "windows", "linux", "libusb"}
    /\ Ids \subseteq Nat \ {0}
    /\ NoSerial \notin Serials
    /\ Inputs \subseteq Seq(Devices)

VARIABLES
    backend,       (* the hid.c that is linked *)
    driver,        (* Windows: some device of the HID class has a driver *)
    epc,           (* where hid_open() is *)
    wantedId, wantedSerial,         (* its parameters *)
    todo,          (* the devices hid_enumerate() has not looked at *)
    seen,          (* history: those it has looked at *)
    next,          (* next[n]: the node after node n *)
    info,          (* info[n]: the device that node n describes *)
    root, cur_dev, prev_dev, (* of hid_enumerate(); cur_dev of hid_open() too *)
    path,          (* path_to_open: the device, by its place in `seen`, or 0 *)
    copies         (* libusb: HID altsettings of the device still to list *)

evars == <<backend, driver, epc, wantedId, wantedSerial, todo, seen, next,
           info, root, cur_dev, prev_dev, path, copies>>

listVars == <<next, info, root, cur_dev, prev_dev>>
callVars == <<backend, driver, wantedId, wantedSerial>>

EPcs == {"enumerate", "fill", "search", "open", "opening", "free", "done",
         "crashed"}

Nodes == DOMAIN next

\* calloc() of a node: an address that is not in use.
FreshNode == CHOOSE n \in 1..(Len(seen) + Len(todo)) * 2 + 1 : n \notin Nodes

\* macOS and Linux always give a string for the serial number.
Possible(d) ==
    /\ d.cond \in Conditions[backend]
    /\ backend \in {"mac", "linux"} => d.serial # NoSerial

EInit ==
    /\ backend \in Backends
    /\ driver \in BOOLEAN
    /\ epc = "enumerate"
    /\ wantedId \in Ids \union {AnyId}
    /\ wantedSerial \in Serials \union {NoSerial}
    /\ todo \in {s \in Inputs : \A k \in 1..Len(s) : Possible(s[k])}
    /\ seen = <<>>
    /\ next = <<>> /\ info = <<>>
    /\ root = NULL /\ cur_dev = NULL /\ prev_dev = NULL
    /\ path = 0 /\ copies = 0

Matches(d) == wantedId \in {AnyId, d.id}

\* The device gets past what comes before the comparison.
MacConsiders(d) == d.cond # "null"

\* This includes a look at the devices of the HID class for one that has a
\* driver, which stops at any of them, not at this one.
WindowsConsiders(d) == d.cond = "listed" /\ driver

LinuxConsiders(d) == d.cond \in {"bluetooth", "usb", "orphan", "noNode"}

LibusbConsiders(d) == d.cond # "noHid"

Considered(d) ==
    CASE backend = "mac" -> MacConsiders(d)
      [] backend = "windows" -> WindowsConsiders(d)
      [] backend = "linux" -> LinuxConsiders(d)
      [] backend = "libusb" -> LibusbConsiders(d)

-----------------------------------------------------------------------------
(* hid_enumerate().                                                        *)

Looked == /\ seen' = Append(seen, Head(todo))
          /\ todo' = Tail(todo)

\* The device is passed over.
PassOver ==
    /\ epc = "enumerate" /\ todo # <<>>
    /\ ~(Considered(Head(todo)) /\ Matches(Head(todo)))
    /\ Looked
    /\ UNCHANGED <<epc, callVars, listVars, path, copies>>

\* A node is allocated and attached behind cur_dev, or becomes the root.
Attach(d) ==
    LET n == FreshNode
    IN  /\ next' = [m \in Nodes \union {n} |->
                      IF m = n THEN NULL ELSE IF m = cur_dev THEN n ELSE next[m]]
        /\ info' = [m \in Nodes \union {n} |-> IF m = n THEN d ELSE info[m]]
        /\ root' = IF cur_dev = NULL THEN n ELSE root
        /\ prev_dev' = cur_dev
        /\ cur_dev' = n

\* Mutant: the filter is left out.
ListEveryOne ==
    /\ epc = "enumerate" /\ todo # <<>>
    /\ Considered(Head(todo))
    /\ Looked
    /\ Attach(Len(seen) + 1)
    /\ epc' = "fill"
    /\ copies' = IF Head(todo).cond = "twice" THEN 1 ELSE 0
    /\ UNCHANGED <<callVars, path>>

List ==
    /\ epc = "enumerate" /\ todo # <<>>
    /\ Considered(Head(todo)) /\ Matches(Head(todo))
    /\ Looked
    /\ Attach(Len(seen) + 1)
    /\ epc' = "fill"
    /\ copies' = IF Head(todo).cond = "twice" THEN 1 ELSE 0
    /\ UNCHANGED <<callVars, path>>

\* libusb lists every HID altsetting of an interface, all with one path.
ListAgain ==
    /\ epc = "fill" /\ copies > 0
    /\ Attach(Len(seen))
    /\ copies' = copies - 1
    /\ UNCHANGED <<epc, callVars, todo, seen, path>>

\* The record is filled in.
Fill ==
    /\ epc = "fill" /\ copies = 0
    /\ seen[info[cur_dev]].cond # "orphan"
    /\ epc' = "enumerate"
    /\ UNCHANGED <<callVars, listVars, todo, seen, path, copies>>

\* Mutant: cur_dev stays at the node that has been freed.
TakeOffKeepsCur ==
    /\ epc = "fill" /\ copies = 0
    /\ seen[info[cur_dev]].cond = "orphan"
    /\ next' = [m \in Nodes \ {cur_dev} |-> IF m = prev_dev THEN NULL ELSE next[m]]
    /\ info' = [m \in Nodes \ {cur_dev} |-> info[m]]
    /\ root' = IF prev_dev = NULL THEN NULL ELSE root
    /\ epc' = "enumerate"
    /\ UNCHANGED <<callVars, cur_dev, prev_dev, todo, seen, path, copies>>

\* Linux: a USB device whose parent is not found is freed and taken off the
\* list.
TakeOff ==
    /\ epc = "fill" /\ copies = 0
    /\ seen[info[cur_dev]].cond = "orphan"
    /\ next' = [m \in Nodes \ {cur_dev} |-> IF m = prev_dev THEN NULL ELSE next[m]]
    /\ info' = [m \in Nodes \ {cur_dev} |-> info[m]]
    /\ root' = IF prev_dev = NULL THEN NULL ELSE root
    /\ cur_dev' = prev_dev
    /\ epc' = "enumerate"
    /\ UNCHANGED <<callVars, prev_dev, todo, seen, path, copies>>

Enumerated ==
    /\ epc = "enumerate" /\ todo = <<>>
    /\ epc' = "search"
    /\ cur_dev' = root
    /\ UNCHANGED <<callVars, next, info, root, prev_dev, todo, seen, path, copies>>

\* hid_init() fails, or the list of the system cannot be had: no list.
EnumerateFails ==
    /\ epc = "enumerate" /\ seen = <<>>
    /\ epc' = "search"
    /\ todo' = <<>>
    /\ UNCHANGED <<callVars, listVars, seen, path, copies>>

-----------------------------------------------------------------------------
(* hid_open() and hid_free_enumeration().                                  *)

\* The vendor and product must be equal here: 0 no longer stands for any.
SameId == seen[info[cur_dev]].id = wantedId

\* wcscmp() with a device that has no serial number crashes, except that the
\* libusb version looks for NULL first.
ComparesNull ==
    /\ SameId /\ wantedSerial # NoSerial
    /\ seen[info[cur_dev]].serial = NoSerial /\ backend # "libusb"

Crashes ==
    /\ epc = "search" /\ cur_dev # NULL /\ ComparesNull
    /\ epc' = "crashed"
    /\ UNCHANGED <<callVars, listVars, todo, seen, path, copies>>

\* Mutant: the serial number is not looked at.
FitsAnySerial == SameId

Fits == SameId /\ wantedSerial \in {NoSerial, seen[info[cur_dev]].serial}

\* Linux: a device without a node in /dev is listed with the path NULL.
HasPath == seen[info[cur_dev]].cond # "noNode"

\* The search ends with the first that fits, even if it has no path.
Search ==
    /\ epc = "search"
    /\ \/ /\ cur_dev = NULL
          /\ epc' = "free"
          /\ UNCHANGED <<cur_dev, path>>
       \/ /\ cur_dev # NULL /\ Fits
          /\ IF HasPath THEN epc' = "open" /\ path' = info[cur_dev]
                        ELSE epc' = "free" /\ UNCHANGED path
          /\ UNCHANGED cur_dev
       \/ /\ cur_dev # NULL /\ ~Fits /\ ~ComparesNull
          /\ cur_dev' = next[cur_dev]
          /\ UNCHANGED <<epc, path>>
    /\ UNCHANGED <<callVars, next, info, root, prev_dev, todo, seen, copies>>

\* hid_open_path() is called with a string of the list ...
OpenPath ==
    /\ epc = "open"
    /\ epc' = "opening"
    /\ UNCHANGED <<callVars, listVars, todo, seen, path, copies>>

\* ... and returns, with a handle or without.
OpenReturns ==
    /\ epc = "opening"
    /\ epc' = "free"
    /\ UNCHANGED <<callVars, listVars, todo, seen, path, copies>>

\* Mutant: the next node is read from one that has been freed, and the rest is
\* lost.
FreeFirst ==
    /\ epc = "free" /\ root # NULL
    /\ next' = [m \in Nodes \ {root} |-> next[m]]
    /\ info' = [m \in Nodes \ {root} |-> info[m]]
    /\ root' = NULL
    /\ UNCHANGED <<epc, callVars, cur_dev, prev_dev, todo, seen, path, copies>>

\* hid_free_enumeration() frees a node and goes on to the next.
FreeNode ==
    /\ epc = "free" /\ root # NULL
    /\ next' = [m \in Nodes \ {root} |-> next[m]]
    /\ info' = [m \in Nodes \ {root} |-> info[m]]
    /\ root' = next[root]
    /\ UNCHANGED <<epc, callVars, cur_dev, prev_dev, todo, seen, path, copies>>

\* hid_open() returns: its variables are no more.
OpenDone ==
    /\ epc = "free" /\ root = NULL
    /\ epc' = "done"
    /\ wantedId' = AnyId /\ wantedSerial' = NoSerial /\ driver' = FALSE
    /\ seen' = <<>> /\ path' = 0
    /\ cur_dev' = NULL /\ prev_dev' = NULL
    /\ UNCHANGED <<backend, todo, next, info, root, copies>>

ENext ==
    \/ PassOver \/ List \/ ListAgain \/ Fill \/ TakeOff \/ Enumerated
    \/ EnumerateFails \/ Crashes \/ Search \/ OpenPath \/ FreeNode \/ OpenDone

ESpec == EInit /\ [][ENext \/ OpenReturns]_evars

-----------------------------------------------------------------------------
(* Properties.                                                             *)

\* The types; a pointer that is still followed is NULL or points to a node that
\* is allocated.
ETypeOK ==
    /\ backend \in Backends /\ driver \in BOOLEAN /\ epc \in EPcs
    /\ wantedId \in Ids \union {AnyId}
    /\ wantedSerial \in Serials \union {NoSerial}
    /\ todo \in Seq(Devices) /\ seen \in Seq(Devices)
    /\ Nodes \subseteq Nat \ {0} /\ DOMAIN info = Nodes
    /\ \A n \in Nodes : /\ next[n] \in Nodes \union {NULL}
                       /\ info[n] \in 1..Len(seen)
    /\ root \in Nodes \union {NULL} /\ cur_dev \in Nat /\ prev_dev \in Nat
    /\ epc \in {"enumerate", "fill", "search"} => cur_dev \in Nodes \union {NULL}
    /\ path \in 0..Len(seen) /\ copies \in 0..1

\* The devices a list should name, by their places in `seen`: those that pass,
\* but for USB devices without a parent, each as often as it has altsettings.
Names(k) ==
    IF ~Considered(seen[k]) \/ ~Matches(seen[k]) \/ seen[k].cond = "orphan"
    THEN <<>>
    ELSE IF seen[k].cond = "twice" THEN <<k, k>> ELSE <<k>>

Expected == FlattenSeq([k \in 1..Len(seen) |-> Names(k)])

\* The list as the root reaches it.
Reached ==
    LET walk[k \in 0..Len(seen) * 2] ==
          IF k = 0 THEN <<>>
          ELSE LET before == walk[k - 1]
                   n == IF before = <<>> THEN root ELSE next[Last(before)]
               IN  IF n = NULL THEN before ELSE Append(before, n)
    IN  walk[Len(seen) * 2]

\* hid_enumerate(): the finished list names the devices that should be in it,
\* in the order of the system, and nothing else is allocated.
ListRight ==
    epc \in {"search", "open", "opening"} =>
        /\ [k \in 1..Len(Reached) |-> info[Reached[k]]] = Expected
        /\ ToSet(Reached) = Nodes

\* The device at this place is what hid_open() is asked for.
AskedFor(k) ==
    /\ seen[k].id = wantedId
    /\ wantedSerial \in {NoSerial, seen[k].serial}

\* hid_open(): it opens the first device that has exactly the vendor, the
\* product and the serial number that are asked for.
OpensFirstFit ==
    epc \in {"open", "opening"} =>
        \E i \in 1..Len(Expected) :
            /\ path = Expected[i] /\ AskedFor(path)
            /\ \A j \in 1..i - 1 : ~AskedFor(Expected[j])

\* hid_free_enumeration(): nothing of the list is left when hid_open() returns.
AllFreed == epc = "done" => Nodes = {}
=============================================================================

------------------------ MODULE HidEnumerationProofs ------------------------
(***************************************************************************)
(* hid_enumerate(), hid_open() and hid_free_enumeration() for every list   *)
(* of devices and every hid.c: the list is right, the first device that    *)
(* fits is opened, and nothing of the list is left.                        *)
(*                                                                         *)
(* Two things are defined by recursion: the names that should be in the    *)
(* list (FlattenSeq) and the walk along the list (Reached).  What they     *)
(* yield is proved by induction over a set of natural numbers, with the    *)
(* lemmas at the beginning of HidDescriptorProofs.                         *)
(***************************************************************************)
EXTENDS HidEnumeration, HidDescriptorProofs, FiniteSetTheorems,
        SequenceTheorems, TLAPS

-----------------------------------------------------------------------------
(* The linked list.                                                        *)

At(s, i) == IF i \in 1..Len(s) THEN s[i] ELSE NULL

\* The nodes from the root on are those of s, and there are no others.
Linked(s) ==
    /\ s \in Seq(Nat \ {0})
    /\ \A i, j \in 1..Len(s) : s[i] = s[j] => i = j
    /\ Nodes = {s[i] : i \in 1..Len(s)}
    /\ root = At(s, 1)
    /\ \A i \in 1..Len(s) : next[s[i]] = At(s, i + 1)

LEMMA CountTo ==
    ASSUME NEW n \in Nat
    PROVE  IsFiniteSet(1..n) /\ Cardinality(1..n) = n
<1>1. IsFiniteSet(1..n) /\ Cardinality(1..n) = IF 1 > n THEN 0 ELSE n - 1 + 1
    BY FS_Interval
<1> QED
    BY <1>1

\* Of Len(s) + 1 addresses one is free.
LEMMA FreshIsFree ==
    ASSUME NEW s, Linked(s), seen \in Seq(Devices), todo \in Seq(Devices),
           Len(s) <= (Len(seen) + Len(todo)) * 2
    PROVE  FreshNode \in Nat \ {0} /\ FreshNode \notin Nodes
<1> DEFINE size == (Len(seen) + Len(todo)) * 2 + 1
<1>1. size \in Nat /\ Len(s) \in Nat /\ Len(s) < size
    BY DEF Linked
<1> HIDE DEF size
<1>2. \E n \in 1..size : n \notin Nodes
  <2> SUFFICES ASSUME 1..size \subseteq Nodes PROVE FALSE
      OBVIOUS
  <2>1. IsFiniteSet(1..Len(s)) /\ Cardinality(1..Len(s)) = Len(s)
      BY <1>1, CountTo
  <2>2. IsFiniteSet(1..size) /\ Cardinality(1..size) = size
      BY <1>1, CountTo
  <2> DEFINE f == [i \in 1..Len(s) |-> s[i]]
  <2>3. f \in Surjection(1..Len(s), Nodes)
      BY DEF Linked, Surjection
  <2>4. IsFiniteSet(Nodes) /\ Cardinality(Nodes) <= Len(s)
    <3> HIDE DEF f
    <3> QED
      BY <2>1, <2>3, FS_Surjection
  <2>5. Cardinality(1..size) <= Cardinality(Nodes)
      BY <2>4, FS_Subset
  <2>6. Cardinality(Nodes) \in Nat
      BY <2>4, FS_CardinalityType
  <2> QED
      BY <1>1, <2>2, <2>4, <2>5, <2>6
<1>3. FreshNode \in 1..size /\ FreshNode \notin Nodes
    BY <1>2 DEF FreshNode, size
<1> QED
    BY <1>1, <1>3

\* A node is attached behind the last.
LEMMA AttachLinks ==
    ASSUME NEW s, Linked(s), cur_dev = At(s, Len(s)), NEW d, Attach(d),
           DOMAIN info = Nodes, NEW n, n = FreshNode,
           n \in Nat \ {0}, n \notin Nodes
    PROVE  /\ Linked(Append(s, n))'
           /\ cur_dev' = n /\ prev_dev' = At(Append(s, n), Len(s))
           /\ DOMAIN info' = Nodes' /\ Nodes' = Nodes \union {n}
           /\ info'[n] = d
           /\ \A m \in Nodes : info'[m] = info[m]
<1> DEFINE t == Append(s, n)
<1>1. /\ t \in Seq(Nat \ {0}) /\ Len(t) = Len(s) + 1 /\ Len(s) \in Nat
      /\ t[Len(t)] = n /\ \A i \in 1..Len(s) : t[i] = s[i]
    BY DEF Linked
<1>2. /\ next' = [m \in Nodes \union {n} |->
                    IF m = n THEN NULL ELSE IF m = cur_dev THEN n ELSE next[m]]
      /\ info' = [m \in Nodes \union {n} |-> IF m = n THEN d ELSE info[m]]
      /\ root' = IF cur_dev = NULL THEN n ELSE root
      /\ prev_dev' = cur_dev /\ cur_dev' = n
    BY DEF Attach
<1>3. Nodes' = Nodes \union {n} /\ DOMAIN info' = Nodes \union {n}
    BY <1>2 DEF Nodes
<1>4. /\ Nodes = {s[i] : i \in 1..Len(s)}
      /\ \A i \in 1..Len(s) : s[i] \in Nodes /\ s[i] # n
      /\ \A i, j \in 1..Len(s) : s[i] = s[j] => i = j
    BY DEF Linked
<1> HIDE DEF t
<1>a. /\ \A i \in 1..Len(t) : i = Len(t) \/ i \in 1..Len(s)
      /\ 1..Len(s) \subseteq 1..Len(t) /\ Len(t) \in 1..Len(t)
    BY <1>1
<1>5. \A i, j \in 1..Len(t) : t[i] = t[j] => i = j
    BY <1>1, <1>4, <1>a, Zenon
<1>6. Nodes' = {t[i] : i \in 1..Len(t)}
  <2>1. \A m \in Nodes' : \E i \in 1..Len(t) : m = t[i]
      BY <1>1, <1>3, <1>4, <1>a
  <2>2. \A i \in 1..Len(t) : t[i] \in Nodes'
      BY <1>1, <1>3, <1>4, <1>a
  <2> QED
      BY <2>1, <2>2
<1>7. root' = At(t, 1)
    BY <1>1, <1>2 DEF Linked, At, NULL
<1>8. ASSUME NEW i \in 1..Len(t) PROVE next'[t[i]] = At(t, i + 1)
  <2>1. CASE i = Len(t)
      BY <1>1, <1>2, <2>1 DEF At
  <2>2. CASE i = Len(s)
    <3>1. i \in 1..Len(s) /\ i + 1 = Len(t) /\ i + 1 \in 1..Len(t)
        BY <1>1, <1>8, <2>2
    <3>2. t[i] = cur_dev /\ t[i] \in Nodes /\ t[i] # n
        BY <1>1, <1>4, <2>2, <3>1 DEF At
    <3> QED
        BY <1>1, <1>2, <3>1, <3>2 DEF At
  <2>3. CASE i # Len(t) /\ i # Len(s)
    <3>1. i \in 1..Len(s) /\ Len(s) \in 1..Len(s) /\ i + 1 \in 1..Len(s)
          /\ i + 1 \in 1..Len(t)
        BY <1>1, <1>8, <2>3
    <3>2. t[i] = s[i] /\ t[i] \in Nodes /\ t[i] # n
        BY <1>1, <1>4, <3>1
    <3>a. cur_dev = s[Len(s)] /\ s[i] # s[Len(s)]
        BY <1>4, <2>3, <3>1 DEF At
    <3>3. next'[t[i]] = next[s[i]]
        BY <1>2, <3>2, <3>a
    <3> QED
        BY <1>1, <3>1, <3>3 DEF At, Linked
  <2> QED
      BY <2>1, <2>2, <2>3
<1>9. prev_dev' = At(t, Len(s))
    BY <1>1, <1>2 DEF At
<1>10. Linked(t)'
    BY <1>1, <1>5, <1>6, <1>7, <1>8 DEF Linked, At
<1> QED
    BY <1>2, <1>3, <1>4, <1>9, <1>10 DEF t

\* The last node is taken off.
LEMMA TakeOffLinks ==
    ASSUME NEW s, Linked(s), s # <<>>, cur_dev = At(s, Len(s)),
           prev_dev = At(s, Len(s) - 1), DOMAIN info = Nodes, TakeOff
    PROVE  /\ Linked(SubSeq(s, 1, Len(s) - 1))'
           /\ cur_dev' = At(SubSeq(s, 1, Len(s) - 1), Len(s) - 1)
           /\ DOMAIN info' = Nodes' /\ Nodes' \subseteq Nodes
           /\ \A m \in Nodes' : info'[m] = info[m]
<1> DEFINE t == SubSeq(s, 1, Len(s) - 1)
<1>1. /\ s \in Seq(Nat \ {0}) /\ Len(s) \in Nat \ {0}
      /\ Len(s) \in 1..Len(s)
    BY DEF Linked
<1>2. /\ t \in Seq(Nat \ {0}) /\ Len(t) = Len(s) - 1 /\ Len(t) \in Nat
      /\ \A i \in 1..Len(t) : t[i] = s[i]
  <2>1. Len(s) - 1 \in 0..Len(s) /\ Len(s) - 1 \in Nat
      BY <1>1
  <2> QED
      BY <1>1, <2>1, FirstOnes
<1>a. /\ \A i \in 1..Len(s) : i = Len(s) \/ i \in 1..Len(t)
      /\ 1..Len(t) \subseteq 1..Len(s) /\ Len(s) \notin 1..Len(t)
    BY <1>1, <1>2
<1>b. /\ Nodes = {s[i] : i \in 1..Len(s)}
      /\ \A i, j \in 1..Len(s) : s[i] = s[j] => i = j
    BY DEF Linked
<1>3. cur_dev = s[Len(s)] /\ prev_dev = At(t, Len(t))
    BY <1>1, <1>2 DEF At
<1>4. /\ next' = [m \in Nodes \ {cur_dev} |-> IF m = prev_dev THEN NULL ELSE next[m]]
      /\ info' = [m \in Nodes \ {cur_dev} |-> info[m]]
      /\ root' = IF prev_dev = NULL THEN NULL ELSE root
      /\ cur_dev' = prev_dev
    BY DEF TakeOff
<1> HIDE DEF t
<1>5. Nodes' = Nodes \ {cur_dev} /\ DOMAIN info' = Nodes \ {cur_dev}
    BY <1>4 DEF Nodes
<1>6. \A i, j \in 1..Len(t) : t[i] = t[j] => i = j
    BY <1>2, <1>a, <1>b, Zenon
<1>7. Nodes' = {t[i] : i \in 1..Len(t)}
  <2>1. \A m \in Nodes' : \E i \in 1..Len(t) : m = t[i]
      BY <1>2, <1>3, <1>5, <1>a, <1>b
  <2>2. \A i \in 1..Len(t) : t[i] \in Nodes'
      BY <1>1, <1>2, <1>3, <1>5, <1>a, <1>b
  <2> QED
      BY <2>1, <2>2
<1>8. root' = At(t, 1)
    BY <1>1, <1>2, <1>3, <1>4 DEF Linked, At, NULL
<1>9. ASSUME NEW i \in 1..Len(t) PROVE next'[t[i]] = At(t, i + 1)
  <2>1. i \in 1..Len(s) /\ t[i] = s[i] /\ t[i] \in Nodes'
      BY <1>1, <1>2, <1>7
  <2>2. CASE i = Len(t)
    <3>1. t[i] = prev_dev
        BY <1>3, <2>2 DEF At
    <3> QED
        BY <1>2, <1>4, <1>5, <2>1, <2>2, <3>1 DEF At
  <2>3. CASE i # Len(t)
    <3>1. i + 1 \in 1..Len(t) /\ i + 1 \in 1..Len(s) /\ Len(t) \in 1..Len(t)
        BY <1>1, <1>2, <2>3
    <3>2. t[i] # prev_dev
        BY <1>3, <1>6, <2>3, <3>1 DEF At
    <3> QED
        BY <1>2, <1>4, <1>5, <2>1, <3>1, <3>2 DEF At, Linked
  <2> QED
      BY <2>2, <2>3
<1>10. Linked(t)'
    BY <1>2, <1>6, <1>7, <1>8, <1>9 DEF Linked, At
<1> QED
    BY <1>2, <1>3, <1>4, <1>5, <1>10 DEF t

\* The first node is freed.
LEMMA FreeLinks ==
    ASSUME NEW s, Linked(s), DOMAIN info = Nodes, FreeNode
    PROVE  /\ s # <<>> /\ Linked(Tail(s))'
           /\ DOMAIN info' = Nodes' /\ Nodes' \subseteq Nodes
           /\ \A m \in Nodes' : info'[m] = info[m]
<1> DEFINE t == Tail(s)
<1>1. s # <<>> /\ s \in Seq(Nat \ {0}) /\ Len(s) \in Nat \ {0}
    BY DEF FreeNode, Linked, At
<1>2. /\ t \in Seq(Nat \ {0}) /\ Len(t) = Len(s) - 1 /\ Len(t) \in Nat
      /\ \A i \in 1..Len(t) : t[i] = s[i + 1]
    BY <1>1
<1> HIDE DEF t
<1>3. /\ next' = [m \in Nodes \ {root} |-> next[m]]
      /\ info' = [m \in Nodes \ {root} |-> info[m]]
      /\ root' = next[root]
    BY DEF FreeNode
<1>4. Nodes' = Nodes \ {root} /\ DOMAIN info' = Nodes \ {root}
    BY <1>3 DEF Nodes
<1>5. 1 \in 1..Len(s) /\ root = s[1]
    BY <1>1 DEF Linked, At
<1>a. \A i \in 1..Len(t) : i + 1 \in 1..Len(s) /\ i + 1 # 1
    BY <1>1, <1>2
<1>b. /\ Nodes = {s[i] : i \in 1..Len(s)}
      /\ \A i, j \in 1..Len(s) : s[i] = s[j] => i = j
    BY DEF Linked
<1>6. \A i, j \in 1..Len(t) : t[i] = t[j] => i = j
  <2> SUFFICES ASSUME NEW i \in 1..Len(t), NEW j \in 1..Len(t), t[i] = t[j]
               PROVE  i = j
      OBVIOUS
  <2>1. i + 1 = j + 1
      BY <1>2, <1>a, <1>b
  <2> QED
      BY <2>1
<1>7. Nodes' = {t[i] : i \in 1..Len(t)}
  <2>1. ASSUME NEW m \in Nodes' PROVE m \in {t[i] : i \in 1..Len(t)}
    <3>1. PICK i \in 1..Len(s) : m = s[i]
        BY <1>4, <2>1 DEF Linked
    <3>2. i # 1
        BY <1>4, <1>5, <2>1, <3>1
    <3>3. i - 1 \in 1..Len(t) /\ (i - 1) + 1 = i
        BY <1>1, <1>2, <3>2
    <3> QED
        BY <1>2, <3>1, <3>3
  <2>2. ASSUME NEW i \in 1..Len(t) PROVE t[i] \in Nodes'
    <3>1. s[i + 1] \in Nodes /\ s[i + 1] # s[1]
        BY <1>5, <1>a, <1>b
    <3> QED
        BY <1>2, <1>4, <1>5, <3>1
  <2> QED
      BY <2>1, <2>2
<1>8. root' = At(t, 1)
  <2>1. root' = At(s, 2)
      BY <1>1, <1>3, <1>5 DEF Linked
  <2> QED
      BY <1>1, <1>2, <2>1 DEF At
<1>9. ASSUME NEW i \in 1..Len(t) PROVE next'[t[i]] = At(t, i + 1)
  <2>1. i + 1 \in 1..Len(s) /\ t[i] = s[i + 1] /\ t[i] \in Nodes'
      BY <1>2, <1>7, <1>a
  <2>2. next'[t[i]] = At(s, i + 2)
    <3>1. next'[t[i]] = next[s[i + 1]]
        BY <1>3, <1>4, <2>1
    <3>2. next[s[i + 1]] = At(s, (i + 1) + 1) /\ (i + 1) + 1 = i + 2
        BY <2>1 DEF Linked
    <3> QED
        BY <3>1, <3>2
  <2> QED
      BY <1>1, <1>2, <2>2 DEF At
<1>10. Linked(t)'
    BY <1>2, <1>6, <1>7, <1>8, <1>9 DEF Linked, At
<1> QED
    BY <1>1, <1>3, <1>4, <1>10 DEF t

-----------------------------------------------------------------------------
(* The names that should be in the list.                                   *)

\* Those of the first n devices.
Upto(n) == FlattenSeq([k \in 1..n |-> Names(k)])

LEMMA NamesType == \A k \in Nat : Names(k) \in Seq(Nat)
<1> SUFFICES ASSUME NEW k \in Nat PROVE Names(k) \in Seq(Nat)
    OBVIOUS
<1>1. <<>> \in Seq(Nat) /\ <<k>> \in Seq(Nat) /\ <<k, k>> \in Seq(Nat)
    OBVIOUS
<1> QED
    BY <1>1, Zenon DEF Names

LEMMA UptoStep ==
    ASSUME NEW n \in Nat
    PROVE  /\ Upto(n) \in Seq(Nat)
           /\ Upto(n + 1) = Upto(n) \o Names(n + 1)
<1> DEFINE ss == [k \in 1..n |-> Names(k)]
<1>1. ss \in Seq(Seq(Nat)) /\ Len(ss) = n
    BY NamesType
<1>2. Names(n + 1) \in Seq(Nat)
    BY NamesType
<1>3. [k \in 1..n + 1 |-> Names(k)] = Append(ss, Names(n + 1))
    BY <1>1, <1>2
<1> HIDE DEF ss
<1>4. /\ FlattenSeq(ss) \in Seq(Nat)
      /\ FlattenSeq(Append(ss, Names(n + 1))) = FlattenSeq(ss) \o Names(n + 1)
    BY <1>1, <1>2, FlattenAppend
<1> QED
    BY <1>3, <1>4 DEF Upto, ss

UptoLaw ==
    \A n \in Nat : /\ Upto(n) \in Seq(Nat)
                   /\ Upto(n + 1) = Upto(n) \o Names(n + 1)

LEMMA UptoHolds == UptoLaw
BY UptoStep DEF UptoLaw

LEMMA UptoHoldsNext == UptoLaw'
BY UptoHolds, PTL

LEMMA UptoNone == Upto(0) = <<>>
BY DEF Upto, FlattenSeq

\* They do not change while other devices are looked at.
LEMMA NamesStay ==
    ASSUME NEW k, seen'[k] = seen[k], UNCHANGED callVars
    PROVE  Names(k)' = Names(k)
<1>1. Considered(seen[k])' <=> Considered(seen[k])
    BY DEF Considered, MacConsiders, WindowsConsiders, LinuxConsiders,
           LibusbConsiders, callVars
<1>2. Matches(seen[k])' <=> Matches(seen[k])
    BY DEF Matches, callVars
<1> QED
    BY <1>1, <1>2 DEF Names

LEMMA UptoStays ==
    ASSUME NEW n \in Nat, \A k \in 1..n : seen'[k] = seen[k],
           UNCHANGED callVars
    PROVE  Upto(n)' = Upto(n)
<1>1. \A k \in 1..n : Names(k)' = Names(k)
    BY NamesStay
<1>2. [k \in 1..n |-> Names(k)]' = [k \in 1..n |-> Names(k)]
    BY <1>1
<1> QED
    BY <1>2 DEF Upto

-----------------------------------------------------------------------------
(* The inductive invariant.                                                *)

ETypes ==
    /\ backend \in Backends /\ driver \in BOOLEAN /\ epc \in EPcs
    /\ wantedId \in Ids \union {AnyId}
    /\ wantedSerial \in Serials \union {NoSerial}
    /\ todo \in Seq(Devices) /\ seen \in Seq(Devices)
    /\ DOMAIN info = Nodes
    /\ \A n \in Nodes : info[n] \in 1..Len(seen)
    /\ cur_dev \in Nat /\ prev_dev \in Nat
    /\ path \in 0..Len(seen) /\ copies \in 0..1

\* The nodes of s describe the devices that are named, one after the other.
Naming(s, names) ==
    /\ Len(s) = Len(names)
    /\ \A i \in 1..Len(s) : info[s[i]] = names[i]

\* The list is right for the devices that have been looked at.
Complete(s) == Naming(s, Upto(Len(seen))) /\ Len(s) <= Len(seen) * 2

Newest == seen[Len(seen)]

\* How often it has been listed.
Copied == IF Newest.cond = "twice" /\ copies = 0
          THEN <<Len(seen), Len(seen)>> ELSE <<Len(seen)>>

Growing(s) == cur_dev = At(s, Len(s)) /\ copies = 0 /\ Complete(s)

Filling(s) ==
    /\ seen # <<>> /\ s # <<>>
    /\ cur_dev = At(s, Len(s)) /\ prev_dev = At(s, Len(s) - 1)
    /\ Considered(Newest) /\ Matches(Newest)
    /\ copies # 0 => Newest.cond = "twice"
    /\ Naming(s, Upto(Len(seen) - 1) \o Copied)
    /\ Len(s) + 2 <= Len(seen) * 2 + Len(Copied)

NotBefore(s, i) == \A j \in 1..i - 1 : ~AskedFor(info[s[j]])

Searching(s) ==
    /\ Complete(s)
    /\ \E i \in 1..Len(s) + 1 : cur_dev = At(s, i) /\ NotBefore(s, i)

Found(s) ==
    /\ Complete(s)
    /\ \E i \in 1..Len(s) :
         path = info[s[i]] /\ AskedFor(path) /\ NotBefore(s, i)

Stage(s) ==
    /\ epc = "enumerate" => Growing(s)
    /\ epc = "fill" => Filling(s)
    /\ epc = "search" => Searching(s)
    /\ epc \in {"open", "opening"} => Found(s)
    /\ epc = "done" => s = <<>>

EInv == ETypes /\ \E s : Linked(s) /\ Stage(s)

LEMMA EInvInit == EInit => EInv
<1> SUFFICES ASSUME EInit PROVE EInv
    OBVIOUS
<1>1. ETypes
  <2>1. todo \in Seq(Devices) /\ seen \in Seq(Devices) /\ Len(seen) = 0
      BY EnumerationAssumption DEF EInit
  <2>2. Nodes = {} /\ DOMAIN info = {}
      BY DEF EInit, Nodes
  <2> QED
      BY <2>1, <2>2 DEF EInit, ETypes, EPcs, NULL
<1>2. Linked(<<>>)
    BY DEF EInit, Linked, Nodes, At
<1>3. Stage(<<>>)
  <2>1. Len(seen) = 0 /\ Complete(<<>>)
      BY UptoNone DEF EInit, Complete, Naming
  <2> QED
      BY <2>1 DEF EInit, Stage, Growing, At
<1> QED
    BY <1>1, <1>2, <1>3 DEF EInv

-----------------------------------------------------------------------------
(* The steps of hid_enumerate().                                           *)

\* The next device has been looked at.
LEMMA LookedStep ==
    ASSUME ETypes, todo # <<>>, Looked, UNCHANGED callVars
    PROVE  \E l \in Nat :
             /\ l = Len(seen) /\ Len(seen') = l + 1
             /\ todo' \in Seq(Devices) /\ seen' \in Seq(Devices) /\ seen' # <<>>
             /\ seen'[l + 1] = Head(todo)
             /\ Upto(l)' = Upto(l) /\ Upto(l + 1)' = Upto(l) \o Names(l + 1)'
             /\ Considered(seen[l + 1])' <=> Considered(Head(todo))
             /\ Matches(seen[l + 1])' <=> Matches(Head(todo))
             /\ Len(todo) \in Nat \ {0}
<1>1. todo \in Seq(Devices) /\ seen \in Seq(Devices) /\ Head(todo) \in Devices
    BY DEF ETypes
<1>2. PICK l \in Nat : l = Len(seen)
    BY <1>1
<1>3. /\ Len(seen') = l + 1 /\ todo' \in Seq(Devices)
      /\ seen' \in Seq(Devices) /\ seen' # <<>>
      /\ seen'[l + 1] = Head(todo) /\ Len(todo) \in Nat \ {0}
      /\ \A k \in 1..l : seen'[k] = seen[k]
    BY <1>1, <1>2 DEF Looked
<1>4. Upto(l)' = Upto(l)
    BY <1>3, UptoStays
<1>5. (Upto(l + 1) = Upto(l) \o Names(l + 1))'
    BY UptoHoldsNext, Zenon DEF UptoLaw
<1>6. /\ Considered(seen[l + 1])' <=> Considered(Head(todo))
      /\ Matches(seen[l + 1])' <=> Matches(Head(todo))
    BY <1>3 DEF Considered, MacConsiders, WindowsConsiders, LinuxConsiders,
                LibusbConsiders, Matches, callVars
<1> QED
    BY <1>2, <1>3, <1>4, <1>5, <1>6

LEMMA ListStays ==
    ASSUME NEW s, Linked(s), UNCHANGED <<next, root>>
    PROVE  Linked(s)' /\ Nodes' = Nodes
BY DEF Linked, Nodes, At

\* The nodes of s keep their names.
LEMMA NamingStays ==
    ASSUME NEW s, NEW names, Naming(s, names), Linked(s),
           \A m \in Nodes : info'[m] = info[m]
    PROVE  Naming(s, names)'
BY DEF Naming, Linked

LEMMA PassOverStep ==
    ASSUME ETypes, NEW s, Linked(s), Growing(s), PassOver
    PROVE  EInv'
<1>1. /\ UNCHANGED <<epc, callVars, listVars, path, copies>> /\ Looked
      /\ todo # <<>> /\ epc = "enumerate"
      /\ ~(Considered(Head(todo)) /\ Matches(Head(todo)))
    BY DEF PassOver
<1>2. UNCHANGED <<next, info, root, cur_dev, prev_dev, path, copies>>
    BY <1>1 DEF listVars
<1>3. Linked(s)' /\ Nodes' = Nodes
    BY <1>2, ListStays
<1>4. PICK l \in Nat :
        /\ l = Len(seen) /\ Len(seen') = l + 1
        /\ todo' \in Seq(Devices) /\ seen' \in Seq(Devices)
        /\ Upto(l)' = Upto(l) /\ Upto(l + 1)' = Upto(l) \o Names(l + 1)'
        /\ Considered(seen[l + 1])' <=> Considered(Head(todo))
        /\ Matches(seen[l + 1])' <=> Matches(Head(todo))
    BY <1>1, LookedStep
<1>5. ETypes'
    BY <1>1, <1>2, <1>3, <1>4 DEF ETypes, callVars
<1>6. Upto(l + 1)' = Upto(l)
  <2>1. Names(l + 1)' = <<>>
      BY <1>1, <1>4 DEF Names
  <2>2. Upto(l) \in Seq(Nat)
      BY UptoStep
  <2>3. \A x \in Seq(Nat) : x \o <<>> = x
      OBVIOUS
  <2> QED
      BY <1>4, <2>1, <2>2, <2>3, Zenon
<1>7. Naming(s, Upto(l)) /\ Len(s) <= l * 2 /\ Len(s) \in Nat
    BY <1>4 DEF Growing, Complete, Linked
<1>8. Naming(s, Upto(l))'
    BY <1>2, <1>4, <1>7 DEF Naming
<1>9. Complete(s)'
    BY <1>4, <1>6, <1>7, <1>8 DEF Complete, Naming
<1>10. Stage(s)'
    BY <1>1, <1>2, <1>9 DEF Stage, Growing, At
<1> QED
    BY <1>3, <1>5, <1>10 DEF EInv

\* A device is attached that has been looked at: the names of the list get
\* one more.
LEMMA AttachStep ==
    ASSUME ETypes, NEW s, Linked(s), cur_dev = At(s, Len(s)), NEW d \in Nat,
           Attach(d), NEW names \in Seq(Nat), Naming(s, names),
           Len(s) <= (Len(seen) + Len(todo)) * 2
    PROVE  \E t : /\ Linked(t)' /\ Len(t) = Len(s) + 1 /\ t # <<>>
                  /\ Naming(t, Append(names, d))'
                  /\ cur_dev' = At(t, Len(t)) /\ prev_dev' = At(t, Len(t) - 1)
                  /\ cur_dev' \in Nat /\ prev_dev' \in Nat
                  /\ DOMAIN info' = Nodes'
                  /\ \A m \in Nodes' : info'[m] = d \/ info'[m] \in 1..Len(seen)
<1>1. PICK n : n = FreshNode
    OBVIOUS
<1>2. n \in Nat \ {0} /\ n \notin Nodes
    BY <1>1, FreshIsFree DEF ETypes
<1> DEFINE t == Append(s, n)
<1>3. /\ Linked(t)' /\ cur_dev' = n /\ prev_dev' = At(t, Len(s))
      /\ DOMAIN info' = Nodes' /\ Nodes' = Nodes \union {n}
      /\ info'[n] = d /\ \A m \in Nodes : info'[m] = info[m]
    BY <1>1, <1>2, AttachLinks DEF ETypes
<1>4. /\ t \in Seq(Nat \ {0}) /\ Len(t) = Len(s) + 1 /\ Len(s) \in Nat
      /\ t[Len(t)] = n /\ t # <<>> /\ \A i \in 1..Len(s) : t[i] = s[i]
    BY <1>2 DEF Linked
<1> HIDE DEF t
<1>5. Naming(t, Append(names, d))'
  <2>1. /\ Len(Append(names, d)) = Len(names) + 1 /\ Len(names) = Len(s)
        /\ Append(names, d)[Len(names) + 1] = d
        /\ \A i \in 1..Len(names) : Append(names, d)[i] = names[i]
      BY DEF Naming
  <2>2. ASSUME NEW i \in 1..Len(t) PROVE info'[t[i]] = Append(names, d)[i]
    <3>1. CASE i = Len(t)
        BY <1>3, <1>4, <2>1, <3>1
    <3>2. CASE i # Len(t)
      <4>1. i \in 1..Len(s)
          BY <1>4, <3>2
      <4>2. s[i] \in Nodes /\ info[s[i]] = names[i]
          BY <4>1 DEF Linked, Naming
      <4> QED
          BY <1>3, <1>4, <2>1, <4>1, <4>2
    <3> QED
        BY <3>1, <3>2
  <2> QED
      BY <1>4, <2>1, <2>2 DEF Naming
<1>6. cur_dev' = At(t, Len(t)) /\ prev_dev' = At(t, Len(t) - 1)
    BY <1>3, <1>4 DEF At
<1>7. cur_dev' \in Nat /\ prev_dev' \in Nat
    BY <1>2, <1>3, <1>4, <1>6 DEF At, NULL
<1>8. \A m \in Nodes' : info'[m] = d \/ info'[m] \in 1..Len(seen)
    BY <1>3 DEF ETypes
<1> QED
    BY <1>3, <1>4, <1>5, <1>6, <1>7, <1>8

LEMMA ListStep ==
    ASSUME ETypes, NEW s, Linked(s), Growing(s), List
    PROVE  EInv'
<1>1. /\ UNCHANGED <<callVars, path>> /\ Looked /\ todo # <<>>
      /\ epc' = "fill" /\ Attach(Len(seen) + 1)
      /\ Considered(Head(todo)) /\ Matches(Head(todo))
      /\ copies' = IF Head(todo).cond = "twice" THEN 1 ELSE 0
    BY DEF List
<1>2. PICK l \in Nat :
        /\ l = Len(seen) /\ Len(seen') = l + 1
        /\ todo' \in Seq(Devices) /\ seen' \in Seq(Devices) /\ seen' # <<>>
        /\ seen'[l + 1] = Head(todo) /\ Upto(l)' = Upto(l)
        /\ Considered(seen[l + 1])' <=> Considered(Head(todo))
        /\ Matches(seen[l + 1])' <=> Matches(Head(todo))
        /\ Len(todo) \in Nat \ {0}
    BY <1>1, LookedStep
<1>3. /\ cur_dev = At(s, Len(s)) /\ Naming(s, Upto(l)) /\ Len(s) <= l * 2
      /\ Len(s) \in Nat
    BY <1>2 DEF Growing, Complete, Linked
<1>4. Upto(l) \in Seq(Nat) /\ l + 1 \in Nat /\ Attach(l + 1)
    BY <1>1, <1>2, UptoStep
<1>5. Len(s) <= (Len(seen) + Len(todo)) * 2
    BY <1>2, <1>3
<1>6. PICK t : /\ Linked(t)' /\ Len(t) = Len(s) + 1 /\ t # <<>>
               /\ Naming(t, Append(Upto(l), l + 1))'
               /\ cur_dev' = At(t, Len(t)) /\ prev_dev' = At(t, Len(t) - 1)
               /\ cur_dev' \in Nat /\ prev_dev' \in Nat
               /\ DOMAIN info' = Nodes'
               /\ \A m \in Nodes' : info'[m] = l + 1 \/ info'[m] \in 1..Len(seen)
  <2>1. PICK names \in Seq(Nat) : names = Upto(l)
      BY <1>4
  <2>2. Naming(s, names)
      BY <1>3, <2>1
  <2>3. \E t : /\ Linked(t)' /\ Len(t) = Len(s) + 1 /\ t # <<>>
               /\ Naming(t, Append(names, l + 1))'
               /\ cur_dev' = At(t, Len(t)) /\ prev_dev' = At(t, Len(t) - 1)
               /\ cur_dev' \in Nat /\ prev_dev' \in Nat
               /\ DOMAIN info' = Nodes'
               /\ \A m \in Nodes' : info'[m] = l + 1 \/ info'[m] \in 1..Len(seen)
      BY <1>3, <1>4, <1>5, <2>2, AttachStep
  <2> QED
      BY <1>2, <2>1, <2>3 DEF Naming
<1>7. ETypes'
    BY <1>1, <1>2, <1>6 DEF ETypes, callVars, EPcs
<1>8. Newest' = Head(todo) /\ Copied' = <<l + 1>>
    BY <1>1, <1>2 DEF Newest, Copied
<1>9. Naming(t, Upto(Len(seen) - 1) \o Copied)'
  <2>1. Append(Upto(l), l + 1) = Upto(l) \o <<l + 1>>
      BY <1>4
  <2>2. Upto(Len(seen) - 1)' = Upto(l)'
    <3>1. Len(seen') - 1 = l
        BY <1>2
    <3> QED
        BY <3>1, Zenon DEF Upto, Names
  <2> QED
      BY <1>2, <1>6, <1>8, <2>1, <2>2 DEF Naming
<1>10. Filling(t)'
  <2>1. (Considered(Newest) /\ Matches(Newest))'
      BY <1>1, <1>2 DEF Newest
  <2>2. copies' # 0 => Newest'.cond = "twice"
      BY <1>1, <1>8
  <2>3. Len(t) + 2 <= Len(seen') * 2 + Len(Copied')
      BY <1>2, <1>3, <1>6, <1>8
  <2> QED
      BY <1>2, <1>6, <1>9, <2>1, <2>2, <2>3 DEF Filling, At
<1>11. Stage(t)'
    BY <1>1, <1>10 DEF Stage
<1> QED
    BY <1>6, <1>7, <1>11 DEF EInv

\* The device that is being filled in is the one that was looked at last.
LEMMA FillingNewest ==
    ASSUME ETypes, NEW s, Linked(s), Filling(s)
    PROVE  \E l \in Nat : /\ Len(seen) = l + 1 /\ Upto(l) \in Seq(Nat)
                          /\ info[cur_dev] = l + 1 /\ cur_dev \in Nodes
                          /\ Naming(s, Upto(l) \o Copied)
                          /\ Len(s) \in Nat \ {0}
                          /\ Len(s) = Len(Upto(l)) + Len(Copied)
                          /\ Upto(l + 1) = Upto(l) \o Names(l + 1)
<1>1. PICK l \in Nat : Len(seen) = l + 1
  <2>1. seen \in Seq(Devices) /\ seen # <<>>
      BY DEF ETypes, Filling
  <2>2. Len(seen) - 1 \in Nat /\ Len(seen) = (Len(seen) - 1) + 1
      BY <2>1
  <2> QED
      BY <2>2
<1>2. Upto(l) \in Seq(Nat) /\ Upto(l + 1) = Upto(l) \o Names(l + 1)
    BY UptoStep
<1>3. Naming(s, Upto(l) \o Copied)
  <2>1. Len(seen) - 1 = l
      BY <1>1
  <2> QED
      BY <2>1 DEF Filling
<1>4. s # <<>> /\ Len(s) \in Nat \ {0} /\ Len(s) \in 1..Len(s)
    BY DEF Filling, Linked
<1>5. Copied \in {<<l + 1>>, <<l + 1, l + 1>>}
    BY <1>1 DEF Copied
<1>6. /\ Len(Upto(l) \o Copied) = Len(Upto(l)) + Len(Copied)
      /\ (Upto(l) \o Copied)[Len(Upto(l) \o Copied)] = l + 1
  <2>1. \A x \in Seq(Nat) : /\ Len(x \o <<l + 1>>) = Len(x) + 1
                            /\ (x \o <<l + 1>>)[Len(x) + 1] = l + 1
      OBVIOUS
  <2>2. \A x \in Seq(Nat) : /\ Len(x \o <<l + 1, l + 1>>) = Len(x) + 2
                            /\ (x \o <<l + 1, l + 1>>)[Len(x) + 2] = l + 1
      OBVIOUS
  <2>3. Len(<<l + 1>>) = 1 /\ Len(<<l + 1, l + 1>>) = 2
      OBVIOUS
  <2>4. CASE Copied = <<l + 1>>
      BY <1>2, <2>1, <2>3, <2>4
  <2>5. CASE Copied = <<l + 1, l + 1>>
      BY <1>2, <2>2, <2>3, <2>5
  <2> QED
      BY <1>5, <2>4, <2>5
<1>7. cur_dev = s[Len(s)] /\ cur_dev \in Nodes
    BY <1>4 DEF Filling, At, Linked
<1>8. info[cur_dev] = l + 1 /\ Len(s) = Len(Upto(l)) + Len(Copied)
    BY <1>3, <1>4, <1>6, <1>7 DEF Naming
<1> QED
    BY <1>1, <1>2, <1>3, <1>4, <1>7, <1>8

LEMMA ListAgainStep ==
    ASSUME ETypes, NEW s, Linked(s), Filling(s), ListAgain
    PROVE  EInv'
<1>1. /\ UNCHANGED <<epc, callVars, todo, seen, path>>
      /\ epc = "fill" /\ copies > 0 /\ copies' = copies - 1
      /\ Attach(Len(seen))
    BY DEF ListAgain
<1>2. copies = 1 /\ copies' = 0 /\ Newest.cond = "twice"
    BY <1>1 DEF ETypes, Filling
<1>3. PICK l \in Nat : /\ Len(seen) = l + 1 /\ Upto(l) \in Seq(Nat)
                       /\ Naming(s, Upto(l) \o Copied) /\ Len(s) \in Nat \ {0}
    BY FillingNewest
<1>4. Copied = <<l + 1>> /\ Copied' = <<l + 1, l + 1>> /\ Newest' = Newest
    BY <1>1, <1>2, <1>3 DEF Copied, Newest
<1>5. PICK names \in Seq(Nat) : names = Upto(l) \o <<l + 1>>
  <2>1. \A x \in Seq(Nat) : x \o <<l + 1>> \in Seq(Nat)
      OBVIOUS
  <2>2. Upto(l) \o <<l + 1>> \in Seq(Nat)
      BY <1>3, <2>1
  <2> QED
      BY <2>2
<1>6. /\ cur_dev = At(s, Len(s)) /\ Naming(s, names) /\ Attach(l + 1)
      /\ Len(s) + 2 <= (l + 1) * 2 + 1
    BY <1>1, <1>3, <1>4, <1>5 DEF Filling
<1>7. Len(s) <= (Len(seen) + Len(todo)) * 2
  <2>1. Len(todo) \in Nat
      BY DEF ETypes
  <2> QED
      BY <1>3, <1>6, <2>1
<1>8. PICK t : /\ Linked(t)' /\ Len(t) = Len(s) + 1 /\ t # <<>>
               /\ Naming(t, Append(names, l + 1))'
               /\ cur_dev' = At(t, Len(t)) /\ prev_dev' = At(t, Len(t) - 1)
               /\ cur_dev' \in Nat /\ prev_dev' \in Nat
               /\ DOMAIN info' = Nodes'
               /\ \A m \in Nodes' : info'[m] = l + 1 \/ info'[m] \in 1..Len(seen)
  <2>1. l + 1 \in Nat
      OBVIOUS
  <2> QED
      BY <1>6, <1>7, <2>1, AttachStep
<1>9. ETypes'
    BY <1>1, <1>2, <1>3, <1>8 DEF ETypes, callVars
<1>10. Naming(t, Upto(Len(seen) - 1) \o Copied)'
  <2>1. Append(names, l + 1) = Upto(l) \o <<l + 1, l + 1>>
      BY <1>3, <1>5
  <2>2. Upto(l)' = Upto(l)
      BY <1>1, UptoStays
  <2>3. Upto(Len(seen) - 1)' = Upto(l)'
    <3>1. Len(seen') - 1 = l
        BY <1>1, <1>3
    <3> QED
        BY <3>1, Zenon DEF Upto, Names
  <2> QED
      BY <1>4, <1>8, <2>1, <2>2, <2>3 DEF Naming
<1>11. Filling(t)'
  <2>1. (Considered(Newest) /\ Matches(Newest))'
      BY <1>1, <1>4 DEF Filling, Considered, MacConsiders, WindowsConsiders,
                        LinuxConsiders, LibusbConsiders, Matches, callVars
  <2>2. Len(t) + 2 <= Len(seen') * 2 + Len(Copied')
      BY <1>1, <1>3, <1>4, <1>6, <1>8
  <2>3. seen' # <<>>
      BY <1>1 DEF Filling
  <2> QED
      BY <1>2, <1>8, <1>10, <2>1, <2>2, <2>3 DEF Filling, At
<1>12. Stage(t)'
    BY <1>1, <1>11 DEF Stage
<1> QED
    BY <1>8, <1>9, <1>12 DEF EInv

LEMMA FillStep ==
    ASSUME ETypes, NEW s, Linked(s), Filling(s), Fill
    PROVE  EInv'
<1>1. /\ UNCHANGED <<next, info, root, cur_dev, prev_dev>>
      /\ UNCHANGED <<callVars, todo, seen, path, copies>>
      /\ epc' = "enumerate" /\ copies = 0 /\ seen[info[cur_dev]].cond # "orphan"
    BY DEF Fill, listVars
<1>2. Linked(s)' /\ Nodes' = Nodes
    BY <1>1, ListStays
<1>3. ETypes'
    BY <1>1, <1>2 DEF ETypes, callVars, EPcs
<1>4. PICK l \in Nat : /\ Len(seen) = l + 1 /\ info[cur_dev] = l + 1
                       /\ Naming(s, Upto(l) \o Copied) /\ Len(s) \in Nat
                       /\ Upto(l + 1) = Upto(l) \o Names(l + 1)
    BY FillingNewest
<1>5. Names(l + 1) = Copied
    BY <1>1, <1>4 DEF Names, Copied, Newest, Filling
<1>6. Upto(l + 1)' = Upto(l + 1)
    BY <1>1, UptoStays
<1>7. Naming(s, Upto(l + 1))'
    BY <1>1, <1>4, <1>5, <1>6 DEF Naming
<1>8. Len(s) <= Len(seen') * 2
  <2>1. Len(Copied) <= 2 /\ Len(Copied) \in Nat
      BY DEF Copied
  <2>2. Len(s) + 2 <= Len(seen) * 2 + Len(Copied)
      BY DEF Filling
  <2> QED
      BY <1>1, <1>4, <2>1, <2>2
<1>9. Complete(s)'
    BY <1>1, <1>4, <1>7, <1>8 DEF Complete, Naming
<1>10. Stage(s)'
    BY <1>1, <1>9 DEF Stage, Growing, Filling, At
<1> QED
    BY <1>2, <1>3, <1>10 DEF EInv

LEMMA TakeOffStep ==
    ASSUME ETypes, NEW s, Linked(s), Filling(s), TakeOff
    PROVE  EInv'
<1>1. /\ UNCHANGED <<callVars, prev_dev, todo, seen, path, copies>>
      /\ epc' = "enumerate" /\ copies = 0 /\ seen[info[cur_dev]].cond = "orphan"
    BY DEF TakeOff
<1>2. PICK l \in Nat : /\ Len(seen) = l + 1 /\ info[cur_dev] = l + 1
                       /\ Upto(l) \in Seq(Nat) /\ Len(s) \in Nat \ {0}
                       /\ Naming(s, Upto(l) \o Copied)
                       /\ Len(s) = Len(Upto(l)) + Len(Copied)
                       /\ Upto(l + 1) = Upto(l) \o Names(l + 1)
    BY FillingNewest
<1>3. Copied = <<l + 1>> /\ Names(l + 1) = <<>>
    BY <1>1, <1>2 DEF Copied, Newest, Names
<1>4. PICK t : t = SubSeq(s, 1, Len(s) - 1)
    OBVIOUS
<1>5. /\ Linked(t)' /\ cur_dev' = At(t, Len(s) - 1)
      /\ DOMAIN info' = Nodes' /\ Nodes' \subseteq Nodes
      /\ \A m \in Nodes' : info'[m] = info[m]
  <2>1. s # <<>> /\ cur_dev = At(s, Len(s)) /\ prev_dev = At(s, Len(s) - 1)
      BY DEF Filling
  <2> QED
      BY <1>4, <2>1, TakeOffLinks DEF ETypes
<1>6. /\ t \in Seq(Nat \ {0}) /\ Len(t) = Len(s) - 1 /\ Len(t) = Len(Upto(l))
      /\ Len(t) \in Nat
      /\ \A i \in 1..Len(t) : t[i] = s[i]
  <2>1. Len(s) - 1 \in 0..Len(s) /\ s \in Seq(Nat \ {0})
      BY <1>2 DEF Linked
  <2>2. /\ t \in Seq(Nat \ {0}) /\ Len(t) = Len(s) - 1
        /\ \A i \in 1..Len(s) - 1 : t[i] = s[i]
      BY <1>4, <2>1, FirstOnes
  <2>3. Len(Upto(l)) \in Nat /\ Len(Copied) = 1
      BY <1>2, <1>3
  <2>4. Len(s) - 1 = Len(Upto(l)) /\ Len(s) - 1 \in Nat
      BY <1>2, <2>3
  <2> QED
      BY <2>2, <2>4
<1>7. ETypes'
  <2>1. cur_dev' \in Nat
      BY DEF TakeOff, ETypes
  <2> QED
      BY <1>1, <1>5, <2>1 DEF ETypes, callVars, EPcs
<1>8. Upto(l + 1)' = Upto(l)
  <2>1. Upto(l + 1)' = Upto(l + 1)
      BY <1>1, UptoStays
  <2>2. Upto(l) \o <<>> = Upto(l)
      BY <1>2
  <2> QED
      BY <1>2, <1>3, <2>1, <2>2
<1>9. Naming(t, Upto(l))'
  <2>1. ASSUME NEW i \in 1..Len(t) PROVE info'[t[i]] = Upto(l)[i]
    <3>1. i \in 1..Len(s) /\ i \in 1..Len(Upto(l))
        BY <1>2, <1>6
    <3>2. info[s[i]] = (Upto(l) \o <<l + 1>>)[i]
        BY <1>2, <1>3, <3>1 DEF Naming
    <3>3. (Upto(l) \o <<l + 1>>)[i] = Upto(l)[i]
        BY <1>2, <3>1
    <3>4. t[i] \in Nodes' /\ t[i] = s[i]
        BY <1>5, <1>6 DEF Linked
    <3> QED
        BY <1>5, <3>2, <3>3, <3>4
  <2>2. Upto(l)' = Upto(l)
    <3>1. \A k \in 1..l : seen'[k] = seen[k]
        BY <1>1
    <3> QED
        BY <1>1, <3>1, UptoStays
  <2> QED
      BY <1>6, <2>1, <2>2 DEF Naming
<1>10. Complete(t)'
  <2>1. Len(t) <= Len(seen') * 2
    <3>1. Len(s) + 2 <= Len(seen) * 2 + 1
        BY <1>3 DEF Filling
    <3> QED
        BY <1>1, <1>2, <1>6, <3>1
  <2>2. Upto(Len(seen))' = Upto(l + 1)'
      BY <1>1, <1>2, Zenon DEF Upto, Names
  <2>3. Upto(l)' = Upto(l)
      BY <1>1, UptoStays
  <2> QED
      BY <1>8, <1>9, <2>1, <2>2, <2>3 DEF Complete, Naming
<1>11. Stage(t)'
    BY <1>1, <1>5, <1>6, <1>10 DEF Stage, Growing, At
<1> QED
    BY <1>5, <1>7, <1>11 DEF EInv

-----------------------------------------------------------------------------
(* The steps of hid_open() and hid_free_enumeration().                     *)

LEMMA CompleteStays ==
    ASSUME ETypes, NEW s, Complete(s), UNCHANGED <<seen, info, callVars>>
    PROVE  Complete(s)'
<1>1. PICK l \in Nat : l = Len(seen)
    BY DEF ETypes
<1>2. Upto(l)' = Upto(l)
    BY UptoStays
<1>3. Upto(Len(seen))' = Upto(l)'
    BY <1>1, Zenon DEF Upto, Names
<1> QED
    BY <1>1, <1>2, <1>3 DEF Complete, Naming

LEMMA AskedForStays ==
    ASSUME UNCHANGED <<seen, info, callVars>>
    PROVE  /\ \A k : AskedFor(k)' <=> AskedFor(k)
           /\ \A s, i : NotBefore(s, i)' <=> NotBefore(s, i)
BY DEF AskedFor, NotBefore, callVars

LEMMA EnumeratedStep ==
    ASSUME ETypes, NEW s, Linked(s), Growing(s), Enumerated \/ EnumerateFails
    PROVE  EInv'
<1>1. /\ UNCHANGED <<next, info, root, prev_dev, callVars, seen, path, copies>>
      /\ epc' = "search" /\ todo' \in {todo, <<>>}
    BY DEF Enumerated, EnumerateFails, listVars
<1>2. Linked(s)' /\ Nodes' = Nodes
    BY <1>1, ListStays
<1>3. Complete(s)'
    BY <1>1, CompleteStays DEF Growing
<1>4. Len(s) \in Nat /\ 1 \in 1..Len(s) + 1 /\ root = At(s, 1)
    BY DEF Linked
<1>5. cur_dev' = root
  <2>1. CASE Enumerated
      BY <2>1 DEF Enumerated
  <2>2. CASE EnumerateFails
    <3>1. Len(seen) = 0 /\ cur_dev' = cur_dev
        BY <2>2 DEF EnumerateFails, listVars
    <3>2. Len(s) = 0
        BY <1>4, <3>1 DEF Growing, Complete
    <3> QED
        BY <1>4, <3>1, <3>2 DEF Growing, At
  <2> QED
      BY <2>1, <2>2
<1>6. ETypes'
  <2>1. root \in Nat
      BY DEF Linked, At, NULL
  <2>2. todo' \in Seq(Devices)
    <3>1. todo \in Seq(Devices) /\ <<>> \in Seq(Devices)
        BY DEF ETypes
    <3> QED
        BY <1>1, <3>1
  <2> QED
      BY <1>1, <1>2, <1>5, <2>1, <2>2 DEF ETypes, callVars, EPcs
<1>7. NotBefore(s, 1)'
    BY DEF NotBefore
<1>8. Stage(s)'
    BY <1>1, <1>3, <1>4, <1>5, <1>7 DEF Stage, Searching, At
<1> QED
    BY <1>2, <1>6, <1>8 DEF EInv

LEMMA SearchStep ==
    ASSUME ETypes, NEW s, Linked(s), Searching(s), Search
    PROVE  EInv'
<1>1. /\ UNCHANGED <<callVars, next, info, root, prev_dev, todo, seen, copies>>
      /\ epc = "search"
    BY DEF Search
<1>2. Linked(s)' /\ Nodes' = Nodes
    BY <1>1, ListStays
<1>3. Complete(s)'
    BY <1>1, CompleteStays DEF Searching
<1>4. /\ \A k : AskedFor(k)' <=> AskedFor(k)
      /\ \A i : NotBefore(s, i)' <=> NotBefore(s, i)
    BY <1>1, AskedForStays
<1>5. PICK i \in 1..Len(s) + 1 : cur_dev = At(s, i) /\ NotBefore(s, i)
    BY DEF Searching
<1>6. Fits <=> AskedFor(info[cur_dev])
    BY DEF Fits, SameId, AskedFor
<1>7. Len(s) \in Nat
    BY DEF Linked
<1>8. CASE epc' = "free" /\ UNCHANGED <<cur_dev, path>>
  <2>1. ETypes'
      BY <1>1, <1>2, <1>8 DEF ETypes, callVars, EPcs
  <2>2. Stage(s)'
      BY <1>8 DEF Stage
  <2> QED
      BY <1>2, <2>1, <2>2 DEF EInv
<1>9. ASSUME cur_dev # NULL
      PROVE  /\ i \in 1..Len(s) /\ cur_dev = s[i] /\ cur_dev \in Nodes
             /\ info[cur_dev] \in 1..Len(seen)
  <2>1. i \in 1..Len(s) /\ cur_dev = s[i]
      BY <1>5, <1>9 DEF At
  <2>2. cur_dev \in Nodes
      BY <2>1 DEF Linked
  <2> QED
      BY <2>1, <2>2 DEF ETypes
<1>10. CASE /\ cur_dev # NULL /\ Fits /\ epc' = "open"
            /\ path' = info[cur_dev] /\ UNCHANGED cur_dev
  <2>1. ETypes'
      BY <1>1, <1>2, <1>9, <1>10 DEF ETypes, callVars, EPcs
  <2>2. Found(s)'
    <3>1. /\ i \in 1..Len(s) /\ path' = info'[s[i]] /\ AskedFor(info[cur_dev])
          /\ NotBefore(s, i)'
        BY <1>1, <1>4, <1>5, <1>6, <1>9, <1>10
    <3>2. AskedFor(path)'
        BY <1>1, <1>4, <1>10, <3>1 DEF AskedFor, callVars
    <3> QED
        BY <1>3, <3>1, <3>2 DEF Found
  <2>3. Stage(s)'
      BY <1>10, <2>2 DEF Stage
  <2> QED
      BY <1>2, <2>1, <2>3 DEF EInv
<1>11. CASE /\ cur_dev # NULL /\ ~Fits /\ cur_dev' = next[cur_dev]
            /\ UNCHANGED <<epc, path>>
  <2>1. cur_dev' = At(s, i + 1) /\ i + 1 \in 1..Len(s) + 1
      BY <1>7, <1>9, <1>11 DEF Linked
  <2>2. cur_dev' \in Nat
      BY <2>1 DEF At, NULL, Linked
  <2>3. ETypes'
      BY <1>1, <1>2, <1>11, <2>2 DEF ETypes, callVars
  <2>4. NotBefore(s, i + 1)
    <3>1. ~AskedFor(info[s[i]])
        BY <1>6, <1>9, <1>11
    <3>2. \A j \in 1..(i + 1) - 1 : j = i \/ j \in 1..i - 1
        OBVIOUS
    <3> QED
        BY <1>5, <3>1, <3>2, Zenon DEF NotBefore
  <2>5. NotBefore(s, i + 1)'
      BY <1>4, <2>4
  <2>6. Stage(s)'
      BY <1>1, <1>3, <1>11, <2>1, <2>5 DEF Stage, Searching, At
  <2> QED
      BY <1>2, <2>3, <2>6 DEF EInv
<1> QED
    BY <1>8, <1>10, <1>11, Zenon DEF Search

LEMMA OpenStep ==
    ASSUME ETypes, NEW s, Linked(s), Stage(s),
           Crashes \/ OpenPath \/ OpenReturns
    PROVE  EInv'
<1>1. /\ UNCHANGED <<next, info, root, cur_dev, prev_dev, callVars, todo, seen,
                     path, copies>>
      /\ \/ epc' \in {"crashed", "free"}
         \/ epc = "open" /\ epc' = "opening"
    BY DEF Crashes, OpenPath, OpenReturns, listVars
<1>2. Linked(s)' /\ Nodes' = Nodes
    BY <1>1, ListStays
<1>3. ETypes'
    BY <1>1, <1>2 DEF ETypes, callVars, EPcs
<1>4. CASE epc' \in {"crashed", "free"}
  <2>1. Stage(s)'
      BY <1>4 DEF Stage
  <2> QED
      BY <1>2, <1>3, <2>1 DEF EInv
<1>5. CASE epc = "open" /\ epc' = "opening"
  <2>1. Found(s)
      BY <1>5 DEF Stage
  <2>2. Complete(s)'
      BY <1>1, <2>1, CompleteStays DEF Found
  <2>3. /\ \A k : AskedFor(k)' <=> AskedFor(k)
        /\ \A i : NotBefore(s, i)' <=> NotBefore(s, i)
      BY <1>1, AskedForStays
  <2>4. PICK i \in 1..Len(s) : path = info[s[i]] /\ AskedFor(path) /\ NotBefore(s, i)
      BY <2>1 DEF Found
  <2>5. AskedFor(path)'
      BY <1>1, <2>4 DEF AskedFor, callVars
  <2>6. Found(s)'
      BY <1>1, <2>2, <2>3, <2>4, <2>5 DEF Found
  <2>7. Stage(s)'
      BY <1>5, <2>6 DEF Stage
  <2> QED
      BY <1>2, <1>3, <2>7 DEF EInv
<1> QED
    BY <1>1, <1>4, <1>5

LEMMA FreeNodeStep ==
    ASSUME ETypes, NEW s, Linked(s), FreeNode
    PROVE  EInv'
<1>1. /\ UNCHANGED <<epc, callVars, cur_dev, prev_dev, todo, seen, path, copies>>
      /\ epc = "free"
    BY DEF FreeNode
<1>2. PICK t : t = Tail(s)
    OBVIOUS
<1>3. /\ Linked(t)' /\ DOMAIN info' = Nodes' /\ Nodes' \subseteq Nodes
      /\ \A m \in Nodes' : info'[m] = info[m]
    BY <1>2, FreeLinks DEF ETypes
<1>4. ETypes'
    BY <1>1, <1>3 DEF ETypes, callVars
<1>5. Stage(t)'
    BY <1>1 DEF Stage
<1> QED
    BY <1>3, <1>4, <1>5 DEF EInv

LEMMA OpenDoneStep ==
    ASSUME ETypes, NEW s, Linked(s), OpenDone
    PROVE  EInv'
<1>1. /\ UNCHANGED <<backend, todo, next, info, root, copies>> /\ root = NULL
      /\ epc' = "done" /\ seen' = <<>> /\ path' = 0
      /\ wantedId' = AnyId /\ wantedSerial' = NoSerial /\ driver' = FALSE
      /\ cur_dev' = NULL /\ prev_dev' = NULL
    BY DEF OpenDone
<1>2. s = <<>>
    BY <1>1 DEF Linked, At, NULL
<1>3. Linked(s)' /\ Nodes' = Nodes
    BY <1>1, ListStays
<1>4. ETypes'
  <2>1. \A n \in Nodes : FALSE
      BY <1>2 DEF Linked
  <2>2. seen' \in Seq(Devices) /\ path' \in 0..Len(seen')
      BY <1>1
  <2>3. todo' \in Seq(Devices) /\ DOMAIN info' = Nodes' /\ copies' \in 0..1
      BY <1>1, <1>3 DEF ETypes
  <2> QED
      BY <1>1, <1>3, <2>1, <2>2, <2>3 DEF ETypes, EPcs, NULL
<1>5. Stage(s)'
    BY <1>1, <1>2 DEF Stage
<1> QED
    BY <1>3, <1>4, <1>5 DEF EInv

LEMMA EStutters == EInv /\ UNCHANGED evars => EInv'
<1> SUFFICES ASSUME ETypes, NEW s, Linked(s), Stage(s), UNCHANGED evars
             PROVE  EInv'
    BY DEF EInv
<1>1. UNCHANGED <<backend, driver, epc, wantedId, wantedSerial, todo, seen, next,
                  info, root, cur_dev, prev_dev, path, copies>>
    BY DEF evars
<1>2. ETypes'
    BY <1>1 DEF ETypes, Nodes
<1>3. Linked(s)'
    BY <1>1, ListStays
<1>4. UNCHANGED callVars
    BY <1>1 DEF callVars
<1>5. Complete(s) => Complete(s)'
    BY <1>1, <1>4, CompleteStays
<1>6. /\ AskedFor(path)' <=> AskedFor(path)
      /\ \A i : NotBefore(s, i)' <=> NotBefore(s, i)
    BY <1>1, <1>4, AskedForStays DEF AskedFor, callVars
<1>7. Filling(s) => Filling(s)'
  <2> SUFFICES ASSUME Filling(s) PROVE Filling(s)'
      OBVIOUS
  <2>1. PICK l \in Nat : Len(seen) = l + 1 /\ Naming(s, Upto(l) \o Copied)
      BY FillingNewest
  <2>2. Upto(l)' = Upto(l) /\ Copied' = Copied
      BY <1>1, <1>4, UptoStays DEF Copied, Newest
  <2>3. Upto(Len(seen) - 1)' = Upto(l)'
    <3>1. Len(seen') - 1 = l
        BY <1>1, <2>1
    <3> QED
        BY <3>1, Zenon DEF Upto, Names
  <2>4. Naming(s, Upto(Len(seen) - 1) \o Copied)'
      BY <1>1, <2>1, <2>2, <2>3 DEF Naming
  <2>5. (Considered(Newest) /\ Matches(Newest))'
      BY <1>1 DEF Filling, Newest, Considered, MacConsiders, WindowsConsiders,
                  LinuxConsiders, LibusbConsiders, Matches
  <2> QED
      BY <1>1, <2>2, <2>4, <2>5 DEF Filling, At, Newest
<1>8. Stage(s)'
    BY <1>1, <1>5, <1>6, <1>7 DEF Stage, Growing, Searching, Found, At
<1> QED
    BY <1>2, <1>3, <1>8 DEF EInv

LEMMA EInvStep == EInv /\ [ENext \/ OpenReturns]_evars => EInv'
<1> SUFFICES ASSUME ETypes, NEW s, Linked(s), Stage(s), ENext \/ OpenReturns
             PROVE  EInv'
    BY EStutters DEF EInv
<1>1. CASE PassOver
    BY <1>1, PassOverStep DEF PassOver, Stage
<1>2. CASE List
    BY <1>2, ListStep DEF List, Stage
<1>3. CASE ListAgain
    BY <1>3, ListAgainStep DEF ListAgain, Stage
<1>4. CASE Fill
    BY <1>4, FillStep DEF Fill, Stage
<1>5. CASE TakeOff
    BY <1>5, TakeOffStep DEF TakeOff, Stage
<1>6. CASE Enumerated \/ EnumerateFails
    BY <1>6, EnumeratedStep DEF Enumerated, EnumerateFails, Stage
<1>7. CASE Search
    BY <1>7, SearchStep DEF Search, Stage
<1>8. CASE Crashes \/ OpenPath \/ OpenReturns
    BY <1>8, OpenStep
<1>9. CASE FreeNode
    BY <1>9, FreeNodeStep
<1>10. CASE OpenDone
    BY <1>10, OpenDoneStep
<1> QED
    BY <1>1, <1>2, <1>3, <1>4, <1>5, <1>6, <1>7, <1>8, <1>9, <1>10 DEF ENext

-----------------------------------------------------------------------------
(* What the invariant says.                                                *)

LEMMA AtIn ==
    ASSUME NEW s, Linked(s)
    PROVE  \A i : At(s, i) \in Nodes \union {NULL}
BY DEF Linked, At

LEMMA EInvTypes == EInv => ETypeOK
<1> SUFFICES ASSUME ETypes, NEW s, Linked(s), Stage(s) PROVE ETypeOK
    BY DEF EInv
<1>1. \A i : At(s, i) \in Nodes \union {NULL}
    BY AtIn
<1>2. Nodes \subseteq Nat \ {0} /\ root \in Nodes \union {NULL}
    BY <1>1 DEF Linked
<1>3. \A n \in Nodes : next[n] \in Nodes \union {NULL}
    BY <1>1 DEF Linked
<1>4. epc \in {"enumerate", "fill", "search"} => cur_dev \in Nodes \union {NULL}
    BY <1>1 DEF Stage, Growing, Filling, Searching
<1> QED
    BY <1>2, <1>3, <1>4 DEF ETypes, ETypeOK

\* One step of the walk along the list.
Further(before) ==
    LET n == IF before = <<>> THEN root ELSE next[Last(before)]
    IN  IF n = NULL THEN before ELSE Append(before, n)

LEMMA FurtherStep ==
    ASSUME NEW s, Linked(s), NEW k \in 0..Len(s)
    PROVE  Further(SubSeq(s, 1, k)) =
             IF k < Len(s) THEN SubSeq(s, 1, k + 1) ELSE SubSeq(s, 1, k)
<1>1. s \in Seq(Nat \ {0}) /\ Len(s) \in Nat
    BY DEF Linked
<1> DEFINE b == SubSeq(s, 1, k)
<1>2. /\ b \in Seq(Nat \ {0}) /\ Len(b) = k
      /\ \A i \in 1..k : b[i] = s[i]
    BY <1>1, FirstOnes
<1> HIDE DEF b
<1>3. (IF b = <<>> THEN root ELSE next[Last(b)]) = At(s, k + 1)
  <2>1. CASE b = <<>>
    <3>1. k = 0
        BY <1>2, <2>1
    <3> QED
        BY <2>1, <3>1 DEF Linked
  <2>2. CASE b # <<>>
    <3>1. k \in 1..Len(s) /\ k \in 1..k
        BY <1>1, <1>2, <2>2
    <3>2. Last(b) = s[k]
        BY <1>2, <3>1 DEF Last
    <3> QED
        BY <2>2, <3>1, <3>2 DEF Linked
  <2> QED
      BY <2>1, <2>2
<1>4. CASE k < Len(s)
  <2>1. k + 1 \in 1..Len(s) /\ k + 1 \in 0..Len(s)
      BY <1>1, <1>4
  <2>2. At(s, k + 1) = s[k + 1] /\ s[k + 1] # NULL /\ s[k + 1] \in Nat \ {0}
      BY <1>1, <2>1 DEF At, NULL
  <2>3. Further(b) = Append(b, s[k + 1])
      BY <1>3, <2>2 DEF Further
  <2>4. /\ SubSeq(s, 1, k + 1) \in Seq(Nat \ {0})
        /\ Len(SubSeq(s, 1, k + 1)) = k + 1
        /\ \A i \in 1..k + 1 : SubSeq(s, 1, k + 1)[i] = s[i]
      BY <1>1, <2>1, FirstOnes
  <2>5. /\ Append(b, s[k + 1]) \in Seq(Nat \ {0})
        /\ Len(Append(b, s[k + 1])) = k + 1
        /\ \A i \in 1..k + 1 : Append(b, s[k + 1])[i] = s[i]
    <3>1. \A x \in Seq(Nat \ {0}), n \in Nat \ {0} :
            /\ Append(x, n) \in Seq(Nat \ {0})
            /\ Len(Append(x, n)) = Len(x) + 1
            /\ Append(x, n)[Len(x) + 1] = n
            /\ \A i \in 1..Len(x) : Append(x, n)[i] = x[i]
        OBVIOUS
    <3>2. \A i \in 1..k + 1 : i = k + 1 \/ i \in 1..k
        OBVIOUS
    <3> QED
        BY <1>2, <2>2, <3>1, <3>2
  <2>6. Append(b, s[k + 1]) = SubSeq(s, 1, k + 1)
      BY <2>4, <2>5, SeqEqual
  <2> QED
      BY <1>4, <2>3, <2>6 DEF b
<1>5. CASE ~(k < Len(s))
  <2>1. At(s, k + 1) = NULL
      BY <1>1, <1>5 DEF At
  <2> QED
      BY <1>3, <1>5, <2>1 DEF Further, b
<1> QED
    BY <1>4, <1>5

\* The walk goes along the whole list and ends there.
LEMMA ReachedAll ==
    ASSUME NEW s, Linked(s), seen \in Seq(Devices), Len(s) <= Len(seen) * 2
    PROVE  Reached = s
<1> DEFINE size == Len(seen) * 2
<1>1. size \in Nat /\ Len(s) \in Nat /\ Len(s) <= size /\ s \in Seq(Nat \ {0})
    BY DEF Linked
<1> DEFINE upTo(k) == IF k <= Len(s) THEN k ELSE Len(s)
           along == [k \in 0..size |-> SubSeq(s, 1, upTo(k))]
           walk == CHOOSE w : w = [k \in 0..size |->
                                IF k = 0 THEN <<>> ELSE Further(w[k - 1])]
<1>2. Reached = walk[size]
    BY Zenon DEF Reached, Further
<1> HIDE DEF size
<1>3. SubSeq(s, 1, 0) = <<>> /\ SubSeq(s, 1, Len(s)) = s
    BY <1>1
<1>4. ASSUME NEW k \in 0..size, k # 0
      PROVE  SubSeq(s, 1, upTo(k)) = Further(SubSeq(s, 1, upTo(k - 1)))
  <2>1. k - 1 \in 0..size /\ upTo(k - 1) \in 0..Len(s)
      BY <1>1, <1>4
  <2>2. upTo(k) = IF upTo(k - 1) < Len(s) THEN upTo(k - 1) + 1 ELSE upTo(k - 1)
      BY <1>1, <1>4
  <2> HIDE DEF upTo
  <2> QED
      BY <2>1, <2>2, FurtherStep
<1>5. \A k \in 0..size :
        along[k] = IF k = 0 THEN <<>> ELSE Further(along[k - 1])
  <2> SUFFICES ASSUME NEW k \in 0..size
               PROVE  along[k] = IF k = 0 THEN <<>> ELSE Further(along[k - 1])
      OBVIOUS
  <2>1. CASE k = 0
      BY <1>1, <1>3, <2>1
  <2>2. CASE k # 0
    <3>1. k - 1 \in 0..size
        BY <1>1, <2>2
    <3>2. along[k] = SubSeq(s, 1, upTo(k)) /\ along[k - 1] = SubSeq(s, 1, upTo(k - 1))
        BY <3>1
    <3> HIDE DEF along, upTo
    <3> QED
        BY <1>4, <2>2, <3>2
  <2> QED
      BY <2>1, <2>2
<1>6. walk = [k \in 0..size |-> IF k = 0 THEN <<>> ELSE Further(walk[k - 1])]
  <2>1. along = [k \in 0..size |-> IF k = 0 THEN <<>> ELSE Further(along[k - 1])]
    <3>1. along = [k \in 0..size |-> along[k]]
        OBVIOUS
    <3> HIDE DEF along
    <3> QED
        BY <1>5, <3>1, Zenon
  <2> HIDE DEF along
  <2> QED
      BY <2>1, Zenon
<1> DEFINE S == {k \in Nat : k \in 0..size => walk[k] = along[k]}
<1>7. 0 \in S
  <2>1. 0 \in 0..size
      BY <1>1
  <2> HIDE DEF walk, along
  <2> QED
      BY <1>5, <1>6, <2>1, Zenon
<1>8. ASSUME NEW k \in Nat, k \in S PROVE k + 1 \in S
  <2> SUFFICES ASSUME k + 1 \in 0..size PROVE walk[k + 1] = along[k + 1]
      OBVIOUS
  <2>1. k \in 0..size /\ (k + 1) - 1 = k /\ k + 1 # 0
      BY <1>1
  <2>2. walk[k] = along[k]
      BY <1>8, <2>1
  <2> HIDE DEF walk, along, S
  <2>3. /\ walk[k + 1] = Further(walk[k])
        /\ along[k + 1] = Further(along[k])
      BY <1>5, <1>6, <2>1, Zenon
  <2> QED
      BY <2>2, <2>3
<1>9. walk[size] = along[size]
  <2>1. Nat \subseteq S
    <3> HIDE DEF S
    <3> QED
        BY <1>7, <1>8, SetInduction
  <2>2. size \in 0..size
      BY <1>1
  <2>3. size \in S
    <3> HIDE DEF S
    <3> QED
        BY <1>1, <2>1
  <2> HIDE DEF walk, along
  <2> QED
      BY <2>2, <2>3
<1>10. along[size] = SubSeq(s, 1, Len(s))
    BY <1>1
<1> HIDE DEF walk, along
<1> QED
    BY <1>2, <1>3, <1>9, <1>10

LEMMA EInvList == EInv => ListRight
<1> SUFFICES ASSUME ETypes, NEW s, Linked(s), Stage(s),
                    epc \in {"search", "open", "opening"}
             PROVE  /\ [k \in 1..Len(Reached) |-> info[Reached[k]]] = Expected
                    /\ ToSet(Reached) = Nodes
    BY DEF EInv, ListRight
<1>1. Complete(s)
    BY DEF Stage, Searching, Found
<1>2. Reached = s
    BY <1>1, ReachedAll DEF ETypes, Complete
<1>3. Expected = Upto(Len(seen)) /\ Expected \in Seq(Nat)
  <2>1. Expected = Upto(Len(seen)) /\ Len(seen) \in Nat
      BY DEF Expected, Upto, ETypes
  <2> QED
      BY <2>1, UptoStep
<1>4. Len(s) = Len(Expected) /\ \A k \in 1..Len(s) : info[s[k]] = Expected[k]
    BY <1>1, <1>3 DEF Complete, Naming
<1>5. [k \in 1..Len(s) |-> info[s[k]]] = Expected
  <2>1. Expected = [k \in 1..Len(Expected) |-> Expected[k]]
      BY <1>3
  <2> HIDE DEF Expected
  <2> QED
      BY <1>4, <2>1
<1>6. ToSet(s) = Nodes
    BY DEF Linked, ToSet
<1> QED
    BY <1>2, <1>5, <1>6

LEMMA EInvFirst == EInv => OpensFirstFit
<1> SUFFICES ASSUME ETypes, NEW s, Linked(s), Stage(s), epc \in {"open", "opening"}
             PROVE  \E i \in 1..Len(Expected) :
                      /\ path = Expected[i] /\ AskedFor(path)
                      /\ \A j \in 1..i - 1 : ~AskedFor(Expected[j])
    BY DEF EInv, OpensFirstFit
<1>1. Expected = Upto(Len(seen))
    BY DEF Expected, Upto
<1>2. PICK i \in 1..Len(s) : path = info[s[i]] /\ AskedFor(path) /\ NotBefore(s, i)
    BY DEF Stage, Found
<1>3. Len(s) = Len(Expected) /\ \A k \in 1..Len(s) : info[s[k]] = Expected[k]
    BY <1>1 DEF Stage, Found, Complete, Naming
<1>4. \A j \in 1..i - 1 : j \in 1..Len(s)
    BY DEF Linked
<1> QED
    BY <1>2, <1>3, <1>4 DEF NotBefore

LEMMA EInvFreed == EInv => AllFreed
BY DEF EInv, Stage, Linked, AllFreed

\* hid_open() by itself: for every list of devices and whichever hid.c is
\* linked, the list names the devices that are wanted and no others, the first
\* that fits is opened, and nothing of the list is left.
THEOREM EnumerationCorrect ==
    ESpec => [](ETypeOK /\ ListRight /\ OpensFirstFit /\ AllFreed)
<1>1. EInit => EInv
    BY EInvInit
<1>2. EInv /\ [ENext \/ OpenReturns]_evars => EInv'
    BY EInvStep
<1>3. EInv => ETypeOK /\ ListRight /\ OpensFirstFit /\ AllFreed
    BY EInvTypes, EInvList, EInvFirst, EInvFreed
<1> QED
    BY <1>1, <1>2, <1>3, PTL DEF ESpec
=============================================================================

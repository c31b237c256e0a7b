------------------------- MODULE HidDescriptorProofs -------------------------
(***************************************************************************)
(* The two parsers of report descriptors find what they should in every    *)
(* descriptor that consists of items, however many and of whatever data.   *)
(*                                                                         *)
(* First come facts about recursion, which HidEnumerationProofs needs as   *)
(* well: the induction is over a set of natural numbers, that of the       *)
(* numbers for which the claim holds.                                      *)
(***************************************************************************)
EXTENDS HidDescriptor, FiniteSetTheorems, SequenceTheorems, TLAPS

-----------------------------------------------------------------------------
(* Induction, the concatenation of a sequence of sequences, and recursion. *)

\* A set of numbers that is not empty has a least one.
LEMMA LeastNat ==
    ASSUME NEW S, S \subseteq Nat, S # {}
    PROVE  \E n \in S : \A m \in S : n <= m
<1>1. PICK n \in S : \A m \in S : ~(<<m, n>> \in OpToRel(<, Nat))
    BY NatLessThanWellFounded, WFMin, Zenon
<1>2. \A m \in S : ~(m < n)
    BY <1>1 DEF OpToRel
<1> QED
    BY <1>2

\* Induction over the natural numbers, for a set.
LEMMA SetInduction ==
    ASSUME NEW S, 0 \in S, \A n \in Nat : n \in S => n + 1 \in S
    PROVE  Nat \subseteq S
<1> DEFINE bad == {n \in Nat : n \notin S}
<1> SUFFICES ASSUME bad # {} PROVE FALSE
    OBVIOUS
<1>1. PICK n \in bad : \A m \in bad : n <= m
    BY LeastNat
<1>2. n # 0 /\ n - 1 \in Nat /\ n - 1 \notin bad
    BY <1>1
<1> QED
    BY <1>2

\* h is the chain of partial concatenations of ss, up to m.
Chain(h, ss, m) ==
    /\ h = [i \in 1..m |-> h[i]]
    /\ \A i \in 1..m : h[i] = IF i = 1 THEN ss[i] ELSE h[i - 1] \o ss[i]

LEMMA ChainExists ==
    ASSUME NEW T, NEW ss \in Seq(Seq(T))
    PROVE  \E h : Chain(h, ss, Len(ss)) /\ h \in [1..Len(ss) -> Seq(T)]
<1> DEFINE S == {m \in Nat : m <= Len(ss) =>
                    \E h \in [1..m -> Seq(T)] : Chain(h, ss, m)}
<1>1. 0 \in S
  <2>1. Chain([i \in 1..0 |-> <<>>], ss, 0)
      BY DEF Chain
  <2>2. [i \in 1..0 |-> <<>>] \in [1..0 -> Seq(T)]
      OBVIOUS
  <2> QED
      BY <2>1, <2>2
<1>2. ASSUME NEW m \in Nat, m \in S PROVE m + 1 \in S
  <2>1. SUFFICES ASSUME m + 1 <= Len(ss)
                 PROVE  \E h \in [1..m + 1 -> Seq(T)] : Chain(h, ss, m + 1)
      OBVIOUS
  <2>2. PICK g \in [1..m -> Seq(T)] : Chain(g, ss, m)
      BY <1>2, <2>1
  <2> DEFINE h == [i \in 1..m + 1 |-> IF i <= m THEN g[i] ELSE
                     IF i = 1 THEN ss[i] ELSE g[i - 1] \o ss[i]]
  <2>3. ASSUME NEW i \in 1..m + 1
        PROVE  /\ h[i] \in Seq(T)
               /\ h[i] = IF i = 1 THEN ss[i] ELSE h[i - 1] \o ss[i]
    <3>1. ss[i] \in Seq(T)
        BY <2>1
    <3>2. CASE i <= m
      <4>1. i \in 1..m /\ h[i] = g[i] /\ g[i] \in Seq(T)
          BY <3>2
      <4>2. i # 1 => h[i - 1] = g[i - 1]
          BY <3>2
      <4>3. g[i] = IF i = 1 THEN ss[i] ELSE g[i - 1] \o ss[i]
          BY <2>2, <4>1, Zenon DEF Chain
      <4> HIDE DEF h
      <4> QED
          BY <4>1, <4>2, <4>3, Zenon
    <3>3. CASE i = m + 1 /\ m = 0
        BY <3>1, <3>3
    <3>4. CASE i = m + 1 /\ m # 0
      <4>1. i - 1 = m /\ m \in 1..m /\ m \in 1..m + 1 /\ i # 1 /\ ~(i <= m)
          BY <3>4
      <4>2. h[m] = g[m] /\ g[m] \in Seq(T)
          BY <4>1
      <4>3. h[i] = g[i - 1] \o ss[i]
          BY <4>1
      <4>4. g[m] \o ss[i] \in Seq(T)
          BY <3>1, <4>2
      <4> HIDE DEF h
      <4> QED
          BY <4>1, <4>2, <4>3, <4>4, Zenon
    <3> QED
        BY <3>2, <3>3, <3>4
  <2>4. h = [i \in 1..m + 1 |-> h[i]] /\ h \in [1..m + 1 -> Seq(T)]
      BY <2>3
  <2> HIDE DEF h
  <2> QED
      BY <2>3, <2>4 DEF Chain
<1>3. Len(ss) \in S
  <2> HIDE DEF S
  <2> QED
      BY <1>1, <1>2, SetInduction
<1> QED
    BY <1>3

LEMMA ChainUnique ==
    ASSUME NEW T, NEW ss \in Seq(Seq(T)), NEW n \in Nat, NEW m \in 0..n,
           NEW g, NEW h, Chain(g, ss, n), Chain(h, ss, m)
    PROVE  \A i \in 1..m : g[i] = h[i]
<1> DEFINE S == {k \in Nat : k \in 1..m => g[k] = h[k]}
<1>1. 0 \in S
    OBVIOUS
<1>2. ASSUME NEW k \in Nat, k \in S PROVE k + 1 \in S
  <2>1. SUFFICES ASSUME k + 1 \in 1..m PROVE g[k + 1] = h[k + 1]
      OBVIOUS
  <2>2. k + 1 \in 1..n /\ (k + 1) - 1 = k /\ (k + 1 = 1 \/ k \in 1..m)
      BY <2>1
  <2>3. k + 1 = 1 \/ g[k] = h[k]
      BY <1>2, <2>2
  <2> HIDE DEF S
  <2>4. /\ g[k + 1] = IF k + 1 = 1 THEN ss[k + 1] ELSE g[(k + 1) - 1] \o ss[k + 1]
        /\ h[k + 1] = IF k + 1 = 1 THEN ss[k + 1] ELSE h[(k + 1) - 1] \o ss[k + 1]
      BY <2>1, <2>2, Zenon DEF Chain
  <2> QED
      BY <2>2, <2>3, <2>4, Zenon
<1>3. Nat \subseteq S
  <2> HIDE DEF S
  <2> QED
      BY <1>1, <1>2, SetInduction
<1> QED
    BY <1>3

LEMMA FlattenChain ==
    ASSUME NEW T, NEW ss \in Seq(Seq(T)), Len(ss) # 0, NEW h,
           Chain(h, ss, Len(ss))
    PROVE  FlattenSeq(ss) = h[Len(ss)]
<1> DEFINE f == CHOOSE g : g = [i \in 1..Len(ss) |->
                              IF i = 1 THEN ss[i] ELSE g[i - 1] \o ss[i]]
<1>1. FlattenSeq(ss) = f[Len(ss)]
    BY DEF FlattenSeq
<1>2. h = [i \in 1..Len(ss) |-> IF i = 1 THEN ss[i] ELSE h[i - 1] \o ss[i]]
    BY DEF Chain
<1>3. f = [i \in 1..Len(ss) |-> IF i = 1 THEN ss[i] ELSE f[i - 1] \o ss[i]]
    BY <1>2, Zenon
<1>4. Chain(f, ss, Len(ss))
  <2> HIDE DEF f
  <2> QED
    BY <1>3 DEF Chain
<1>5. Len(ss) \in Nat /\ Len(ss) \in 0..Len(ss) /\ Len(ss) \in 1..Len(ss)
    OBVIOUS
<1>6. f[Len(ss)] = h[Len(ss)]
  <2> HIDE DEF f
  <2> QED
    BY <1>4, <1>5, ChainUnique
<1> QED
    BY <1>1, <1>6

LEMMA FlattenAppend ==
    ASSUME NEW T, NEW ss \in Seq(Seq(T)), NEW x \in Seq(T)
    PROVE  /\ FlattenSeq(ss) \in Seq(T)
           /\ FlattenSeq(Append(ss, x)) = FlattenSeq(ss) \o x
<1> DEFINE all == Append(ss, x)
<1>1. all \in Seq(Seq(T)) /\ Len(all) = Len(ss) + 1 /\ Len(ss) \in Nat
    OBVIOUS
<1>2. PICK g : Chain(g, all, Len(all)) /\ g \in [1..Len(all) -> Seq(T)]
  <2> HIDE DEF all
  <2> QED
      BY <1>1, ChainExists
<1>a. \A i \in 1..Len(all) : g[i] = IF i = 1 THEN all[i] ELSE g[i - 1] \o all[i]
  <2> HIDE DEF all
  <2> QED
      BY <1>2 DEF Chain
<1>b. 1..Len(ss) \subseteq 1..Len(all) /\ Len(all) \in 1..Len(all)
    BY <1>1
<1>3. FlattenSeq(all) = g[Len(all)]
  <2> HIDE DEF all
  <2> QED
      BY <1>1, <1>2, FlattenChain
<1>4. CASE ss = <<>>
  <2>1. Len(all) = 1 /\ all[1] = x
      BY <1>4
  <2>2. g[1] = all[1]
      BY <1>2, <2>1 DEF Chain
  <2>3. FlattenSeq(ss) = <<>>
      BY <1>4 DEF FlattenSeq
  <2> QED
      BY <1>3, <2>1, <2>2, <2>3
<1>5. CASE ss # <<>>
  <2> DEFINE h == [i \in 1..Len(ss) |-> g[i]]
  <2>1. Len(ss) # 0 /\ \A i \in 1..Len(ss) : all[i] = ss[i]
      BY <1>5
  <2>2. Chain(h, ss, Len(ss))
    <3>1. \A i \in 1..Len(ss) : g[i] = IF i = 1 THEN all[i] ELSE g[i - 1] \o all[i]
      <4> HIDE DEF all
      <4> QED
        BY <1>a, <1>b, Zenon
    <3> QED
      BY <1>1, <2>1, <3>1 DEF Chain
  <2>3. FlattenSeq(ss) = h[Len(ss)]
    <3> HIDE DEF h
    <3> QED
      BY <2>1, <2>2, FlattenChain
  <2>4. h[Len(ss)] = g[Len(ss)] /\ g[Len(ss)] \in Seq(T)
      BY <1>1, <1>2, <2>1
  <2>5. all[Len(all)] = x
      BY <1>1
  <2>6. g[Len(all)] = g[Len(ss)] \o all[Len(all)]
    <3>1. Len(all) # 1 /\ Len(all) - 1 = Len(ss)
      BY <1>1, <2>1
    <3> HIDE DEF all
    <3> QED
      BY <1>a, <1>b, <3>1, Zenon
  <2> QED
      BY <1>3, <2>3, <2>4, <2>5, <2>6
<1> QED
    BY <1>4, <1>5

\* The first n elements of a sequence.
LEMMA FirstOnes ==
    ASSUME NEW T, NEW s \in Seq(T), NEW n \in 0..Len(s)
    PROVE  /\ SubSeq(s, 1, n) \in Seq(T)
           /\ Len(SubSeq(s, 1, n)) = n
           /\ \A i \in 1..n : SubSeq(s, 1, n)[i] = s[i]
<1>1. \A i \in 1..n : s[i] \in T
    OBVIOUS
<1>2. SubSeq(s, 1, n) \in Seq(T)
    BY <1>1
<1>3. Len(SubSeq(s, 1, n)) = n
    OBVIOUS
<1> QED
    BY <1>2, <1>3

\* A function by recursion along nxt, which a rank makes end.
Follows(f, D, Stop, val, nxt) ==
    f = [x \in D |-> IF x \in Stop THEN val[x] ELSE f[nxt[x]]]

LEMMA Recursion ==
    ASSUME NEW D, NEW Stop, NEW V, NEW val \in [D -> V], NEW nxt \in [D -> D],
           NEW B \in Nat, NEW rank \in [D -> 0..B],
           \A x \in D : x \notin Stop => rank[nxt[x]] < rank[x]
    PROVE  \E f \in [D -> V] : Follows(f, D, Stop, val, nxt)
<1> DEFINE Good(f, n) == \A x \in D : rank[x] < n =>
                            f[x] = IF x \in Stop THEN val[x] ELSE f[nxt[x]]
           S == {n \in Nat : \E f \in [D -> V] : Good(f, n)}
<1>1. 0 \in S
  <2>1. \A x \in D : ~(rank[x] < 0)
      OBVIOUS
  <2>2. val \in [D -> V] /\ Good(val, 0)
      BY <2>1
  <2> HIDE DEF Good
  <2> QED
      BY <2>2
<1>2. ASSUME NEW n \in Nat, n \in S PROVE n + 1 \in S
  <2>1. PICK f \in [D -> V] : Good(f, n)
      BY <1>2
  <2> DEFINE g == [x \in D |-> IF rank[x] < n THEN f[x] ELSE
                                 IF x \in Stop THEN val[x] ELSE f[nxt[x]]]
  <2>2. g \in [D -> V]
      OBVIOUS
  <2>3. ASSUME NEW x \in D, rank[x] < n + 1
        PROVE  g[x] = IF x \in Stop THEN val[x] ELSE g[nxt[x]]
    <3>1. nxt[x] \in D
        OBVIOUS
    <3>2. x \notin Stop => rank[nxt[x]] < n
      <4>1. rank[x] \in Nat /\ rank[nxt[x]] \in Nat
          BY <3>1
      <4>2. x \notin Stop => rank[nxt[x]] < rank[x]
          OBVIOUS
      <4> QED
          BY <2>3, <4>1, <4>2
    <3>3. x \notin Stop => g[nxt[x]] = f[nxt[x]]
        BY <3>1, <3>2
    <3>4. g[x] = IF rank[x] < n THEN f[x] ELSE
                   IF x \in Stop THEN val[x] ELSE f[nxt[x]]
        OBVIOUS
    <3>5. rank[x] < n => f[x] = IF x \in Stop THEN val[x] ELSE f[nxt[x]]
        BY <2>1
    <3> HIDE DEF g
    <3> QED
        BY <3>3, <3>4, <3>5, Zenon
  <2>4. Good(g, n + 1)
    <3> HIDE DEF g
    <3> QED
        BY <2>3
  <2> HIDE DEF g, Good
  <2> QED
      BY <2>2, <2>4
<1> HIDE DEF S
<1>3. B + 1 \in S
    BY <1>1, <1>2, SetInduction
<1>4. PICK f \in [D -> V] : Good(f, B + 1)
    BY <1>3 DEF S
<1>5. \A x \in D : rank[x] < B + 1
    OBVIOUS
<1>6. \A x \in D : f[x] = IF x \in Stop THEN val[x] ELSE f[nxt[x]]
    BY <1>4, <1>5
<1>7. f = [x \in D |-> IF x \in Stop THEN val[x] ELSE f[nxt[x]]]
    BY <1>6
<1> QED
    BY <1>7, Zenon DEF Follows

-----------------------------------------------------------------------------
(* Where the items of a descriptor are.                                    *)

Byte == 0..255

\* An item is as long as its key says, a long one as its first byte says.
Items ==
    {x \in [key : Byte, rest : Seq(Byte)] :
       IF LongItem(x.key)
       THEN Len(x.rest) >= 2 /\ Len(x.rest) = x.rest[1] + 2
       ELSE Len(x.rest) = IF x.key % 4 = 3 THEN 4 ELSE x.key % 4}

Bytes(x) == <<x.key>> \o x.rest

\* The descriptor up to item k, and where item k starts.
UpToItem(items, k) == Encode(SubSeq(items, 1, k))
Start(items, k) == Len(UpToItem(items, k - 1))

LEMMA BytesOf ==
    ASSUME NEW x \in Items
    PROVE  /\ x.key \in Byte /\ x.rest \in Seq(Byte)
           /\ Bytes(x) \in Seq(Byte) /\ Len(Bytes(x)) = Len(x.rest) + 1
           /\ Bytes(x)[1] = x.key
           /\ \A j \in 1..Len(x.rest) : Bytes(x)[j + 1] = x.rest[j]
<1>1. x.key \in Byte /\ x.rest \in Seq(Byte)
    BY DEF Items
<1>2. <<x.key>> \in Seq(Byte) /\ Len(<<x.key>>) = 1 /\ <<x.key>>[1] = x.key
    BY <1>1
<1> QED
    BY <1>1, <1>2, ConcatProperties DEF Bytes

LEMMA EncodeAs ==
    ASSUME NEW items \in Seq(Items)
    PROVE  /\ [k \in 1..Len(items) |-> Bytes(items[k])] \in Seq(Seq(Byte))
           /\ Encode(items) = FlattenSeq([k \in 1..Len(items) |-> Bytes(items[k])])
<1>1. \A k \in 1..Len(items) : Bytes(items[k]) \in Seq(Byte)
    BY BytesOf
<1>2. [k \in 1..Len(items) |-> Bytes(items[k])] \in Seq(Seq(Byte))
    BY <1>1
<1>3. Encode(items) = FlattenSeq([k \in 1..Len(items) |-> Bytes(items[k])])
    BY DEF Encode, Bytes
<1> QED
    BY <1>2, <1>3

LEMMA EncodeNone == Encode(<<>>) = <<>>
<1>1. [k \in 1..Len(<<>>) |-> Bytes(<<>>[k])] = <<>>
    OBVIOUS
<1>2. <<>> \in Seq(Items)
    OBVIOUS
<1>3. Encode(<<>>) = FlattenSeq(<<>>)
    BY <1>1, <1>2, EncodeAs
<1>4. FlattenSeq(<<>>) = <<>>
    BY DEF FlattenSeq
<1> QED
    BY <1>3, <1>4

LEMMA EncodeAppend ==
    ASSUME NEW items \in Seq(Items), NEW x \in Items
    PROVE  /\ Encode(items) \in Seq(Byte)
           /\ Encode(Append(items, x)) = Encode(items) \o Bytes(x)
<1> DEFINE all == Append(items, x)
           ss == [k \in 1..Len(items) |-> Bytes(items[k])]
<1>1. all \in Seq(Items) /\ Len(all) = Len(items) + 1
      /\ \A k \in 1..Len(items) : all[k] = items[k]
      /\ all[Len(items) + 1] = x
    OBVIOUS
<1>2. ss \in Seq(Seq(Byte)) /\ Encode(items) = FlattenSeq(ss)
    BY EncodeAs
<1>3. Bytes(x) \in Seq(Byte)
    BY BytesOf
<1>4. [k \in 1..Len(all) |-> Bytes(all[k])] = Append(ss, Bytes(x))
  <2>1. Len(ss) = Len(items)
      OBVIOUS
  <2> DEFINE t == [k \in 1..Len(all) |-> Bytes(all[k])]
             u == Append(ss, Bytes(x))
  <2>2. t \in Seq(Seq(Byte)) /\ Len(t) = Len(items) + 1
    <3>1. t \in Seq(Seq(Byte))
      <4> HIDE DEF all
      <4> QED
          BY <1>1, EncodeAs
    <3>2. Len(t) = Len(all)
      <4> HIDE DEF all
      <4> QED
          BY <1>1
    <3> QED
        BY <1>1, <3>1, <3>2
  <2>3. u \in Seq(Seq(Byte)) /\ Len(u) = Len(items) + 1
      BY <1>2, <1>3, <2>1
  <2>4. \A k \in 1..Len(items) + 1 : t[k] = u[k]
    <3>1. SUFFICES ASSUME NEW k \in 1..Len(items) + 1 PROVE t[k] = u[k]
        OBVIOUS
    <3>2. t[k] = Bytes(all[k])
      <4> HIDE DEF all
      <4> QED
          BY <1>1
    <3>3. CASE k \in 1..Len(items)
      <4>1. u[k] = ss[k] /\ ss[k] = Bytes(items[k])
          BY <1>2, <1>3, <2>1, <3>3
      <4>2. all[k] = items[k]
          BY <1>1, <3>3
      <4> QED
          BY <3>2, <4>1, <4>2
    <3>4. CASE k = Len(items) + 1
      <4>1. u[k] = Bytes(x)
          BY <1>2, <1>3, <2>1, <3>4
      <4> QED
          BY <1>1, <3>2, <3>4, <4>1
    <3> QED
        BY <3>3, <3>4
  <2> HIDE DEF t, u
  <2>5. t = u
      BY <2>2, <2>3, <2>4, SeqEqual
  <2> QED
      BY <2>5 DEF t, u
<1>5. Encode(all) = FlattenSeq([k \in 1..Len(all) |-> Bytes(all[k])])
  <2> HIDE DEF all
  <2> QED
      BY <1>1, EncodeAs
<1> HIDE DEF ss
<1> QED
    BY <1>2, <1>3, <1>4, <1>5, FlattenAppend

\* A sequence behind another.
Joined(r, s, t) ==
    /\ r \in Seq(Byte) /\ Len(r) = Len(s) + Len(t)
    /\ \A j \in 1..Len(s) : r[j] = s[j]
    /\ \A j \in 1..Len(t) : r[Len(s) + j] = t[j]

LEMMA Behind ==
    ASSUME NEW s \in Seq(Byte), NEW t \in Seq(Byte)
    PROVE  Joined(s \o t, s, t)
BY DEF Joined

LEMMA UpToNone ==
    ASSUME NEW items \in Seq(Items)
    PROVE  UpToItem(items, 0) = <<>> /\ Start(items, 1) = 0
<1>1. SubSeq(items, 1, 0) = <<>> /\ 1 - 1 = 0 /\ Len(<<>>) = 0
    OBVIOUS
<1> QED
    BY <1>1, EncodeNone DEF UpToItem, Start

LEMMA UpToAll ==
    ASSUME NEW items \in Seq(Items)
    PROVE  /\ UpToItem(items, Len(items)) = Encode(items)
           /\ Start(items, Len(items) + 1) = Len(Encode(items))
<1>1. SubSeq(items, 1, Len(items)) = items /\ (Len(items) + 1) - 1 = Len(items)
    OBVIOUS
<1> QED
    BY <1>1 DEF UpToItem, Start

LEMMA UpToNext ==
    ASSUME NEW items \in Seq(Items), NEW k \in Nat, k < Len(items)
    PROVE  /\ UpToItem(items, k) \in Seq(Byte)
           /\ UpToItem(items, k + 1) = UpToItem(items, k) \o Bytes(items[k + 1])
           /\ items[k + 1] \in Items
<1>1. SubSeq(items, 1, k) \in Seq(Items) /\ items[k + 1] \in Items
    OBVIOUS
<1>2. SubSeq(items, 1, k + 1) = Append(SubSeq(items, 1, k), items[k + 1])
  <2> DEFINE s == SubSeq(items, 1, k + 1)
             t == Append(SubSeq(items, 1, k), items[k + 1])
  <2>1. /\ s \in Seq(Items) /\ Len(s) = k + 1
        /\ \A i \in 1..k + 1 : s[i] = items[i]
      BY FirstOnes
  <2>2. /\ SubSeq(items, 1, k) \in Seq(Items) /\ Len(SubSeq(items, 1, k)) = k
        /\ \A i \in 1..k : SubSeq(items, 1, k)[i] = items[i]
      BY FirstOnes
  <2>3. /\ t \in Seq(Items) /\ Len(t) = k + 1
        /\ \A i \in 1..k + 1 : t[i] = items[i]
      BY <1>1, <2>2
  <2> HIDE DEF s, t
  <2>4. s = t
      BY <2>1, <2>3, SeqEqual
  <2> QED
      BY <2>4 DEF s, t
<1> QED
    BY <1>1, <1>2, EncodeAppend DEF UpToItem

\* Each part of the descriptor is the beginning of the next.
LEMMA UpToPrefix ==
    ASSUME NEW items \in Seq(Items), NEW k \in 0..Len(items)
    PROVE  \A m \in k..Len(items) :
             /\ UpToItem(items, m) \in Seq(Byte)
             /\ Len(UpToItem(items, k)) <= Len(UpToItem(items, m))
             /\ \A j \in 1..Len(UpToItem(items, k)) :
                  UpToItem(items, m)[j] = UpToItem(items, k)[j]
<1> DEFINE P(m) == UpToItem(items, m)
           S == {d \in Nat : k + d <= Len(items) =>
                   /\ P(k + d) \in Seq(Byte)
                   /\ Len(P(k)) <= Len(P(k + d))
                   /\ \A j \in 1..Len(P(k)) : P(k + d)[j] = P(k)[j]}
<1>a. \A m \in 0..Len(items) : P(m) \in Seq(Byte)
  <2>1. SUFFICES ASSUME NEW m \in 0..Len(items) PROVE P(m) \in Seq(Byte)
      OBVIOUS
  <2>2. CASE m < Len(items)
      BY <2>2, UpToNext
  <2>3. CASE m = Len(items)
    <3>1. CASE m = 0
      <4>1. <<>> \in Seq(Byte)
          OBVIOUS
      <4> QED
          BY <3>1, <4>1, UpToNone
    <3>2. CASE m # 0
      <4>1. m - 1 \in Nat /\ m - 1 < Len(items) /\ (m - 1) + 1 = m
          BY <2>3, <3>2
      <4>2. P(m) = P(m - 1) \o Bytes(items[m]) /\ P(m - 1) \in Seq(Byte)
            /\ items[m] \in Items
          BY <4>1, UpToNext
      <4>3. Bytes(items[m]) \in Seq(Byte)
          BY <4>2, BytesOf
      <4> HIDE DEF P
      <4>4. Joined(P(m - 1) \o Bytes(items[m]), P(m - 1), Bytes(items[m]))
          BY <4>2, <4>3, Behind
      <4> QED
          BY <4>2, <4>4, Zenon DEF Joined
    <3> QED
        BY <3>1, <3>2
  <2> QED
      BY <2>2, <2>3
<1>1. 0 \in S
  <2>1. k + 0 = k /\ P(k) \in Seq(Byte)
      BY <1>a
  <2> HIDE DEF P
  <2> QED
      BY <2>1
<1>2. ASSUME NEW d \in Nat, d \in S PROVE d + 1 \in S
  <2>1. SUFFICES ASSUME k + (d + 1) <= Len(items)
                 PROVE  /\ P(k + (d + 1)) \in Seq(Byte)
                        /\ Len(P(k)) <= Len(P(k + (d + 1)))
                        /\ \A j \in 1..Len(P(k)) : P(k + (d + 1))[j] = P(k)[j]
      OBVIOUS
  <2>2. k + d \in Nat /\ k + d < Len(items) /\ k + (d + 1) = (k + d) + 1
      BY <2>1
  <2>3. /\ P(k + (d + 1)) = P(k + d) \o Bytes(items[(k + d) + 1])
        /\ P(k + d) \in Seq(Byte) /\ Bytes(items[(k + d) + 1]) \in Seq(Byte)
      BY <2>2, UpToNext, BytesOf
  <2>4. /\ Len(P(k)) <= Len(P(k + d))
        /\ \A j \in 1..Len(P(k)) : P(k + d)[j] = P(k)[j]
      BY <1>2, <2>2
  <2>5. P(k) \in Seq(Byte)
      BY <1>a
  <2>6. /\ P(k + (d + 1)) \in Seq(Byte)
        /\ Len(P(k + (d + 1))) = Len(P(k + d)) + Len(Bytes(items[(k + d) + 1]))
        /\ \A j \in 1..Len(P(k + d)) : P(k + (d + 1))[j] = P(k + d)[j]
    <3> HIDE DEF P
    <3>1. Joined(P(k + d) \o Bytes(items[(k + d) + 1]), P(k + d),
                 Bytes(items[(k + d) + 1]))
        BY <2>3, Behind
    <3> QED
        BY <2>3, <3>1, Zenon DEF Joined
  <2>7. Len(P(k)) \in Nat /\ Len(P(k + d)) \in Nat
        /\ Len(Bytes(items[(k + d) + 1])) \in Nat
    <3> HIDE DEF P
    <3> QED
        BY <2>3, <2>5
  <2> HIDE DEF P
  <2> QED
      BY <2>4, <2>6, <2>7
<1> HIDE DEF S
<1>3. Nat \subseteq S
    BY <1>1, <1>2, SetInduction
<1>4. ASSUME NEW m \in k..Len(items)
      PROVE  /\ P(m) \in Seq(Byte)
             /\ Len(P(k)) <= Len(P(m))
             /\ \A j \in 1..Len(P(k)) : P(m)[j] = P(k)[j]
  <2>1. m - k \in Nat /\ k + (m - k) = m /\ m <= Len(items)
      OBVIOUS
  <2>2. m - k \in S
      BY <1>3, <2>1
  <2> HIDE DEF P
  <2> QED
      BY <2>1, <2>2 DEF S
<1> QED
    BY <1>4

\* Item k in the descriptor.
LEMMA Layout ==
    ASSUME NEW items \in Seq(Items), NEW k \in 1..Len(items)
    PROVE  /\ Encode(items) \in Seq(Byte)
           /\ Start(items, k) \in Nat /\ items[k] \in Items
           /\ Start(items, k + 1) = Start(items, k) + 1 + Len(items[k].rest)
           /\ Start(items, k + 1) <= Len(Encode(items))
           /\ Encode(items)[Start(items, k) + 1] = items[k].key
           /\ \A j \in 1..Len(items[k].rest) :
                Encode(items)[Start(items, k) + 1 + j] = items[k].rest[j]
<1> DEFINE p == UpToItem(items, k - 1)
           q == UpToItem(items, k)
           b == Bytes(items[k])
           rest == items[k].rest
           i == Start(items, k)
<1>1. k - 1 \in Nat /\ k - 1 < Len(items) /\ (k - 1) + 1 = k /\ (k + 1) - 1 = k
      /\ k \in 0..Len(items) /\ Len(items) \in k..Len(items)
    OBVIOUS
<1>2. p \in Seq(Byte) /\ q = p \o b /\ items[k] \in Items
    BY <1>1, UpToNext
<1>3. /\ items[k].key \in Byte /\ rest \in Seq(Byte)
      /\ b \in Seq(Byte) /\ Len(b) = Len(rest) + 1
      /\ b[1] = items[k].key /\ \A j \in 1..Len(rest) : b[j + 1] = rest[j]
    BY <1>2, BytesOf
<1>4. i = Len(p) /\ Start(items, k + 1) = Len(q)
    BY <1>1 DEF Start
<1>5. /\ Encode(items) \in Seq(Byte) /\ Len(q) <= Len(Encode(items))
      /\ \A j \in 1..Len(q) : Encode(items)[j] = q[j]
    BY <1>1, UpToPrefix, UpToAll
<1> HIDE DEF p, q, b, i, rest
<1>6. /\ Len(q) = Len(p) + 1 + Len(rest) /\ Len(p) \in Nat /\ Len(rest) \in Nat
      /\ \A j \in 1..Len(b) : q[Len(p) + j] = b[j]
  <2>1. /\ Len(q) = Len(p) + Len(b)
        /\ \A j \in 1..Len(b) : q[Len(p) + j] = b[j]
    <3>1. Joined(p \o b, p, b)
        BY <1>2, <1>3, Behind
    <3> QED
        BY <1>2, <3>1, Zenon DEF Joined
  <2>2. Len(p) \in Nat /\ Len(rest) \in Nat
      BY <1>2, <1>3
  <2> DEFINE l == Len(p)
             m == Len(rest)
             t == Len(q)
  <2>3. l \in Nat /\ m \in Nat /\ t = l + (m + 1)
      BY <1>3, <2>1, <2>2, Zenon
  <2> HIDE DEF l, m, t
  <2>4. t = l + 1 + m
      BY <2>3
  <2> QED
      BY <2>1, <2>2, <2>4, Zenon DEF l, m, t
<1>7. Encode(items)[i + 1] = items[k].key
  <2>1. 1 \in 1..Len(b) /\ Len(p) + 1 \in 1..Len(q)
      BY <1>3, <1>6
  <2> QED
      BY <1>3, <1>4, <1>5, <1>6, <2>1, Zenon
<1>8. \A j \in 1..Len(rest) : Encode(items)[i + 1 + j] = rest[j]
  <2>1. SUFFICES ASSUME NEW j \in 1..Len(rest)
                 PROVE  Encode(items)[i + 1 + j] = rest[j]
      OBVIOUS
  <2>2. /\ j + 1 \in 1..Len(b) /\ i + 1 + j \in 1..Len(q)
        /\ i + 1 + j = Len(p) + (j + 1)
      BY <1>3, <1>4, <1>6
  <2>3. Encode(items)[i + 1 + j] = q[i + 1 + j] /\ q[Len(p) + (j + 1)] = b[j + 1]
        /\ b[j + 1] = rest[j]
      BY <1>3, <1>5, <1>6, <2>2
  <2> QED
      BY <2>2, <2>3, Zenon
<1> QED
    BY <1>2, <1>4, <1>5, <1>6, <1>7, <1>8 DEF i, rest

LEMMA EncodeBytes ==
    ASSUME NEW items \in Seq(Items)
    PROVE  Encode(items) \in Seq(Byte) /\ Len(Encode(items)) \in Nat
<1>1. <<>> \in Seq(Byte)
    OBVIOUS
<1>2. items # <<>> => 1 \in 1..Len(items)
    OBVIOUS
<1>3. Encode(items) \in Seq(Byte)
    BY <1>1, <1>2, EncodeNone, Layout
<1> QED
    BY <1>3

-----------------------------------------------------------------------------
(* Walking over the items.                                                 *)

LEMMA ByteIs == \A b \in Byte : b \in Nat /\ b % 4 \in Nat
BY DEF Byte

\* The walk over a sequence of bytes goes on.
LEMMA NextAhead ==
    ASSUME NEW desc \in Seq(Byte), NEW i \in Nat, i < Len(desc)
    PROVE  /\ desc[i + 1] \in Byte /\ DataLen(desc, i) \in Nat
           /\ NextItem(desc, i) \in Nat /\ NextItem(desc, i) > i
<1>1. desc[i + 1] \in Byte
    OBVIOUS
<1>2. i + 1 < Len(desc) => desc[i + 2] \in Byte
    OBVIOUS
<1>3. DataLen(desc, i) \in Nat
  <2> DEFINE key == desc[i + 1]
  <2>1. key \in Nat /\ key % 4 \in Nat
      BY <1>1, ByteIs
  <2>2. DataLen(desc, i) = IF LongItem(key)
                           THEN IF i + 1 < Len(desc) THEN desc[i + 2] ELSE 0
                           ELSE IF key % 4 = 3 THEN 4 ELSE key % 4
      BY DEF DataLen
  <2>3. i + 1 < Len(desc) => desc[i + 2] \in Nat
      BY <1>2, ByteIs
  <2> HIDE DEF key
  <2> QED
      BY <2>1, <2>2, <2>3
<1> QED
    BY <1>1, <1>3 DEF NextItem

\* From an item in the descriptor cut off at size, the walk reaches the next
\* one, or both are cut off.
LEMMA NextIs ==
    ASSUME NEW items \in Seq(Items), NEW k \in 1..Len(items),
           NEW size \in 0..Len(Encode(items)), Start(items, k) < size
    PROVE  LET d == SubSeq(Encode(items), 1, size)
               i == Start(items, k)
           IN  /\ d \in Seq(Byte) /\ Len(d) = size /\ i \in Nat
               /\ d[i + 1] = items[k].key
               /\ \/ NextItem(d, i) = Start(items, k + 1)
                  \/ NextItem(d, i) >= size /\ Start(items, k + 1) >= size
<1> DEFINE desc == Encode(items)
           d == SubSeq(desc, 1, size)
           i == Start(items, k)
           x == items[k]
           next == Start(items, k + 1)
<1>1. /\ desc \in Seq(Byte) /\ i \in Nat /\ x \in Items
      /\ next = i + 1 + Len(x.rest) /\ next <= Len(desc)
      /\ desc[i + 1] = x.key
      /\ \A j \in 1..Len(x.rest) : desc[i + 1 + j] = x.rest[j]
    BY Layout
<1>2. d \in Seq(Byte) /\ Len(d) = size /\ \A j \in 1..size : d[j] = desc[j]
  <2>1. size \in 0..Len(desc)
      OBVIOUS
  <2> HIDE DEF desc
  <2> QED
      BY <1>1, <2>1, FirstOnes
<1>3. x.key \in Byte /\ x.rest \in Seq(Byte) /\ Len(x.rest) \in Nat
      /\ IF LongItem(x.key)
         THEN Len(x.rest) >= 2 /\ Len(x.rest) = x.rest[1] + 2
         ELSE Len(x.rest) = IF x.key % 4 = 3 THEN 4 ELSE x.key % 4
    BY <1>1 DEF Items
<1>4. i < size /\ size \in Nat
    BY <1>1
<1> HIDE DEF desc, d, i, x, next
<1> DEFINE n == Len(x.rest)
<1>7. n \in Nat /\ i \in Nat /\ next = i + 1 + n /\ next \in Nat
  <2>1. n \in Nat /\ i \in Nat /\ next = i + 1 + n
      BY <1>1, <1>3, Zenon
  <2> HIDE DEF n
  <2> QED
      BY <2>1
<1>5. d[i + 1] = x.key
  <2>1. i + 1 \in 1..size
      BY <1>1, <1>4
  <2> QED
      BY <1>1, <1>2, <2>1
<1>6. NextItem(d, i) = next \/ (NextItem(d, i) >= size /\ next >= size)
  <2>1. CASE ~LongItem(x.key)
    <3>1. DataLen(d, i) = Len(x.rest)
        BY <1>3, <1>5, <2>1 DEF DataLen
    <3>2. NextItem(d, i) = i + n + 1
        BY <1>5, <2>1, <3>1 DEF NextItem
    <3> HIDE DEF n
    <3> QED
        BY <1>7, <3>2
  <2>2. CASE LongItem(x.key) /\ i + 1 < size
    <3>1. i + 2 \in 1..size /\ 1 \in 1..Len(x.rest) /\ i + 1 + 1 = i + 2
        BY <1>1, <1>3, <1>4, <2>2
    <3>2. d[i + 2] = x.rest[1]
        BY <1>1, <1>2, <3>1
    <3>3. DataLen(d, i) = x.rest[1]
        BY <1>2, <1>5, <2>2, <3>2 DEF DataLen
    <3>4. NextItem(d, i) = i + x.rest[1] + 3
        BY <1>5, <2>2, <3>3 DEF NextItem
    <3>5. x.rest[1] \in Byte
        BY <1>3, <3>1
    <3>6. x.rest[1] \in Nat
        BY <3>5, ByteIs
    <3>7. n = x.rest[1] + 2
        BY <1>3, <2>2
    <3> DEFINE v == x.rest[1]
    <3>8. v \in Nat /\ n = v + 2 /\ NextItem(d, i) = i + v + 3
        BY <3>4, <3>6, <3>7, Zenon
    <3> HIDE DEF n, v
    <3> QED
        BY <1>7, <3>8
  <2>3. CASE LongItem(x.key) /\ ~(i + 1 < size)
    <3>1. DataLen(d, i) = 0
        BY <1>2, <1>5, <2>3 DEF DataLen
    <3>2. NextItem(d, i) = i + 0 + 3
        BY <1>5, <2>3, <3>1 DEF NextItem
    <3>3. n >= 2
        BY <1>3, <2>3
    <3>4. ~(i + 1 < size)
        BY <2>3
    <3> HIDE DEF n
    <3>5. i + 1 >= size
        BY <1>4, <1>7, <3>4
    <3>6. NextItem(d, i) = i + 3 /\ next >= i + 3
        BY <1>7, <3>2, <3>3
    <3> QED
        BY <1>4, <1>7, <3>5, <3>6
  <2> QED
      BY <2>1, <2>2, <2>3
<1> QED
    BY <1>1, <1>2, <1>5, <1>6 DEF desc, d, i, x, next

-----------------------------------------------------------------------------
(* uses_numbered_reports().                                                *)

\* It is a walk.
LEMMA NumberedWalk ==
    ASSUME NEW desc \in Seq(Byte)
    PROVE  \E f :
             /\ uses_numbered_reports(desc) = f[0]
             /\ \A i \in Nat :
                  /\ f[i] \in BOOLEAN
                  /\ f[i] <=> (i < Len(desc)
                              /\ (desc[i + 1] = ReportID \/ f[NextItem(desc, i)]))
<1> DEFINE size == Len(desc)
           stop == {i \in Nat : i >= size \/ desc[i + 1] = ReportID}
           val == [i \in Nat |-> i < size]
           nxt == [i \in Nat |-> IF i < size THEN NextItem(desc, i) ELSE i]
           rank == [i \in Nat |-> IF i < size THEN size - i ELSE 0]
           Body(g) == [i \in Nat |-> i < size /\ (desc[i + 1] = ReportID
                                                  \/ g[NextItem(desc, i)])]
           f == CHOOSE g : g = Body(g)
<1>1. size \in Nat
    OBVIOUS
<1>2. \A i \in Nat : i < size => NextItem(desc, i) \in Nat /\ NextItem(desc, i) > i
    BY NextAhead
<1> HIDE DEF size
<1>3. /\ val \in [Nat -> BOOLEAN] /\ nxt \in [Nat -> Nat]
      /\ rank \in [Nat -> 0..size]
    BY <1>1, <1>2
<1>4. ASSUME NEW i \in Nat, i \notin stop PROVE rank[nxt[i]] < rank[i]
  <2>1. i < size
      BY <1>1, <1>4
  <2>2. nxt[i] \in Nat /\ nxt[i] > i
      BY <1>2, <2>1
  <2>3. rank[i] = size - i
      BY <2>1
  <2>4. rank[nxt[i]] = IF nxt[i] < size THEN size - nxt[i] ELSE 0
      BY <2>2
  <2> HIDE DEF rank, nxt
  <2> QED
      BY <1>1, <2>1, <2>2, <2>3, <2>4
<1>5. PICK g \in [Nat -> BOOLEAN] : Follows(g, Nat, stop, val, nxt)
  <2> HIDE DEF stop, val, nxt, rank
  <2> QED
      BY <1>1, <1>3, <1>4, Recursion
<1>6. \A i \in Nat : g[i] = IF i \in stop THEN val[i] ELSE g[nxt[i]]
  <2> HIDE DEF stop, val, nxt
  <2> QED
      BY <1>5, Zenon DEF Follows
<1>7. ASSUME NEW i \in Nat
      PROVE  g[i] = (i < size /\ (desc[i + 1] = ReportID \/ g[NextItem(desc, i)]))
  <2>1. CASE ~(i < size)
    <3>1. i \in stop
        BY <1>1, <2>1
    <3>2. val[i] = (i < size)
        BY Zenon
    <3> QED
        BY <1>6, <2>1, <3>1, <3>2, Zenon
  <2>2. CASE i < size /\ desc[i + 1] = ReportID
    <3>1. i \in stop /\ val[i] = TRUE
        BY <2>2
    <3> QED
        BY <1>6, <2>2, <3>1, Zenon
  <2>3. CASE i < size /\ desc[i + 1] # ReportID
    <3>1. i \notin stop /\ nxt[i] = NextItem(desc, i)
        BY <1>1, <2>3
    <3>2. g[nxt[i]] \in BOOLEAN
        BY <1>2, <2>3, <3>1
    <3>3. g[i] = g[NextItem(desc, i)]
        BY <1>6, <3>1, Zenon
    <3> QED
        BY <2>3, <3>1, <3>2, <3>3, Zenon
  <2> QED
      BY <2>1, <2>2, <2>3
<1>8. g = Body(g)
    BY <1>7, Zenon
<1>9. f = Body(f)
  <2> HIDE DEF Body
  <2> QED
      BY <1>8, Zenon
<1>10. uses_numbered_reports(desc) = f[0]
    BY DEF uses_numbered_reports, size
<1>11. \A i \in Nat :
          f[i] = (i < size /\ (desc[i + 1] = ReportID \/ f[NextItem(desc, i)]))
  <2> HIDE DEF f
  <2> QED
      BY <1>9, Zenon
<1> HIDE DEF f
<1>12. \A i \in Nat :
          /\ f[i] \in BOOLEAN
          /\ f[i] <=> (i < size /\ (desc[i + 1] = ReportID \/ f[NextItem(desc, i)]))
    BY <1>11, Zenon
<1> QED
    BY <1>10, <1>12, Zenon DEF size

\* From where item k starts, the walk finds the report IDs from item k on.
LEMMA NumberedFrom ==
    ASSUME NEW items \in Seq(Items), NEW size \in 0..Len(Encode(items)), NEW f,
           \A i \in Nat :
             /\ f[i] \in BOOLEAN
             /\ f[i] <=> (i < size
                         /\ (SubSeq(Encode(items), 1, size)[i + 1] = ReportID
                             \/ f[NextItem(SubSeq(Encode(items), 1, size), i)]))
    PROVE  f[0] <=> \E k \in 1..Len(items) :
                      items[k].key = ReportID /\ Start(items, k) < size
<1> DEFINE d == SubSeq(Encode(items), 1, size)
           N == Len(items)
           Found(k) == \E j \in k..N : items[j].key = ReportID /\ Start(items, j) < size
           S == {n \in Nat : n <= N => (f[Start(items, N + 1 - n)] <=> Found(N + 1 - n))}
<1>0. N \in Nat /\ size \in Nat /\ size <= Len(Encode(items))
    BY EncodeBytes
<1>1. \A k \in 1..N + 1 : Start(items, k) \in Nat
  <2>1. SUFFICES ASSUME NEW k \in 1..N + 1 PROVE Start(items, k) \in Nat
      OBVIOUS
  <2>2. CASE k \in 1..N
      BY <2>2, Layout
  <2>3. CASE k = N + 1
      BY <1>0, <2>3, UpToAll
  <2> QED
      BY <2>2, <2>3
<1>2. \A k \in 1..N + 1 : Start(items, k) >= size =>
          ~f[Start(items, k)] /\ \A j \in k..N : ~(Start(items, j) < size)
  <2>1. SUFFICES ASSUME NEW k \in 1..N + 1, Start(items, k) >= size
                 PROVE ~f[Start(items, k)] /\ \A j \in k..N : ~(Start(items, j) < size)
      OBVIOUS
  <2>2. ~(Start(items, k) < size)
      BY <1>0, <1>1, <2>1
  <2>3. ~f[Start(items, k)]
      BY <1>1, <2>2, Zenon
  <2>4. ASSUME NEW j \in k..N PROVE ~(Start(items, j) < size)
    <3>1. j \in 1..N + 1 /\ k - 1 \in 0..N /\ j - 1 \in (k - 1)..N
        BY <1>0
    <3>2. Start(items, k) <= Start(items, j)
        BY <3>1, UpToPrefix DEF Start
    <3> QED
        BY <1>0, <1>1, <2>1, <3>1, <3>2
  <2> QED
      BY <2>3, <2>4
<1>3. 0 \in S
  <2>1. /\ N + 1 - 0 = N + 1 /\ (N + 1)..N = {} /\ N + 1 \in 1..N + 1
        /\ Start(items, N + 1) >= size
      BY <1>0, UpToAll
  <2>2. ~f[Start(items, N + 1)] /\ ~Found(N + 1)
      BY <1>2, <2>1
  <2> QED
      BY <2>1, <2>2
<1>4. ASSUME NEW n \in Nat, n \in S PROVE n + 1 \in S
  <2> DEFINE k == N + 1 - (n + 1)
             i == Start(items, k)
  <2>0. n + 1 \in Nat
      OBVIOUS
  <2>1. SUFFICES ASSUME n + 1 <= N PROVE f[i] <=> Found(k)
      BY <2>0, Zenon
  <2>2. k \in 1..N /\ k + 1 = N + 1 - n /\ n <= N /\ k \in 1..N + 1
        /\ k + 1 \in 1..N + 1 /\ k..N = {k} \union (k + 1)..N
      BY <1>0, <2>1
  <2>3. f[Start(items, k + 1)] <=> Found(k + 1)
      BY <1>4, <2>2, Zenon
  <2> HIDE DEF k
  <2>4. CASE i >= size
    <3>1. ~f[i] /\ \A j \in k..N : ~(Start(items, j) < size)
        BY <1>2, <2>2, <2>4
    <3> QED
        BY <3>1, Zenon
  <2>5. CASE i < size
    <3>1. /\ d[i + 1] = items[k].key
          /\ \/ NextItem(d, i) = Start(items, k + 1)
             \/ NextItem(d, i) >= size /\ Start(items, k + 1) >= size
          /\ d \in Seq(Byte) /\ Len(d) = size /\ i \in Nat
        BY <2>2, <2>5, NextIs
    <3>2. NextItem(d, i) \in Nat
        BY <2>5, <3>1, NextAhead
    <3>3. f[NextItem(d, i)] <=> f[Start(items, k + 1)]
      <4>1. CASE NextItem(d, i) = Start(items, k + 1)
          BY <4>1
      <4>2. CASE NextItem(d, i) >= size /\ Start(items, k + 1) >= size
        <5>1. ~(NextItem(d, i) < size)
            BY <1>0, <3>2, <4>2
        <5>2. ~f[NextItem(d, i)]
            BY <3>2, <5>1, Zenon
        <5>3. ~f[Start(items, k + 1)]
            BY <1>2, <2>2, <4>2
        <5> QED
            BY <5>2, <5>3, Zenon
      <4> QED
          BY <3>1, <4>1, <4>2
    <3>4. f[i] <=> (items[k].key = ReportID \/ Found(k + 1))
        BY <2>3, <2>5, <3>1, <3>3, Zenon
    <3>5. Found(k) <=> (items[k].key = ReportID \/ Found(k + 1))
        BY <2>2, <2>5, Zenon
    <3> QED
        BY <3>4, <3>5, Zenon
  <2>6. i \in Nat
      BY <1>1, <2>2
  <2> QED
      BY <1>0, <2>4, <2>5, <2>6
<1> HIDE DEF S
<1>5. N \in S
    BY <1>0, <1>3, <1>4, SetInduction
<1>6. f[Start(items, 1)] <=> Found(1)
  <2>1. N <= N /\ N + 1 - N = 1
      BY <1>0
  <2> QED
      BY <1>5, <2>1, Zenon DEF S
<1>7. Start(items, 1) = 0
    BY UpToNone
<1> QED
    BY <1>6, <1>7, Zenon

\* uses_numbered_reports() of linux/hid.c is right about every descriptor, also
\* one that is cut off: it returns 1 iff one of the items that start in what is
\* there is a report ID, and is not misled by data that looks like one.
THEOREM NumberedSound ==
    \A items \in Seq(Items) : \A size \in 0..Len(Encode(items)) :
       NumberedRight(items, size)
<1>1. SUFFICES ASSUME NEW items \in Seq(Items), NEW size \in 0..Len(Encode(items))
               PROVE  NumberedRight(items, size)
    OBVIOUS
<1> DEFINE d == SubSeq(Encode(items), 1, size)
<1>3. d \in Seq(Byte) /\ Len(d) = size
    BY EncodeBytes, FirstOnes
<1>4. PICK f :
        /\ uses_numbered_reports(d) = f[0]
        /\ \A i \in Nat :
             /\ f[i] \in BOOLEAN
             /\ f[i] <=> (i < Len(d) /\ (d[i + 1] = ReportID \/ f[NextItem(d, i)]))
  <2> HIDE DEF d
  <2> QED
    BY <1>3, NumberedWalk
<1>5. \A i \in Nat :
        /\ f[i] \in BOOLEAN
        /\ f[i] <=> (i < size /\ (d[i + 1] = ReportID \/ f[NextItem(d, i)]))
  <2> HIDE DEF d
  <2> QED
    BY <1>3, <1>4, Zenon
<1>6. f[0] <=> \E k \in 1..Len(items) :
                 items[k].key = ReportID /\ Start(items, k) < size
    BY <1>5, NumberedFrom, Zenon
<1> QED
    BY <1>4, <1>6, Zenon DEF NumberedRight, Start, UpToItem

-----------------------------------------------------------------------------
(* get_usage().                                                            *)

Has(i, page, usage) == [at |-> i, page |-> page, usage |-> usage]

LEMMA BytesNat ==
    ASSUME NEW desc \in Seq(Byte), NEW i \in Nat, i < Len(desc)
    PROVE  get_bytes(desc, i) \in Nat
<1> DEFINE n == DataLen(desc, i)
<1>1. n \in Nat
    BY NextAhead
<1>2. \A j \in 1..Len(desc) : desc[j] \in Nat
    BY ByteIs
<1>3. get_bytes(desc, i) =
        CASE i + n >= Len(desc) \/ n \notin {1, 2, 4} -> 0
          [] i + n < Len(desc) /\ n = 1 -> desc[i + 2]
          [] i + n < Len(desc) /\ n \in {2, 4} -> desc[i + 3] * 256 + desc[i + 2]
    BY DEF get_bytes
<1> HIDE DEF n
<1>4. CASE i + n >= Len(desc) \/ n \notin {1, 2, 4}
    BY <1>1, <1>3, <1>4
<1>5. CASE i + n < Len(desc) /\ n = 1
  <2>1. i + 2 \in 1..Len(desc)
      BY <1>5
  <2> QED
      BY <1>2, <1>3, <1>5, <2>1
<1>6. CASE i + n < Len(desc) /\ n \in {2, 4}
  <2>1. i + 2 \in 1..Len(desc) /\ i + 3 \in 1..Len(desc)
      BY <1>6
  <2>2. desc[i + 2] \in Nat /\ desc[i + 3] \in Nat
      BY <1>2, <2>1
  <2>3. get_bytes(desc, i) = desc[i + 3] * 256 + desc[i + 2]
      BY <1>1, <1>3, <1>6
  <2> QED
      BY <2>2, <2>3
<1> QED
    BY <1>1, <1>4, <1>5, <1>6

LEMMA NowType ==
    ASSUME NEW desc \in Seq(Byte), NEW i \in Nat, i < Len(desc), NEW tag,
           NEW before \in Seq(Nat)
    PROVE  Now(desc, tag, i, before) \in Seq(Nat)
BY BytesNat DEF Now

\* get_usage() is a walk, too.
LEMMA UsageWalk ==
    ASSUME NEW desc \in Seq(Byte)
    PROVE  \E f :
             /\ get_usage(desc) = f[Has(0, <<>>, <<>>)]
             /\ \A i \in Nat, page \in Seq(Nat), usage \in Seq(Nat) :
                  LET p == Now(desc, UsagePageTag, i, page)
                      u == Now(desc, UsageTag, i, usage)
                  IN  f[Has(i, page, usage)] =
                        IF i >= Len(desc) THEN <<>> ELSE
                          IF p # <<>> /\ u # <<>> THEN p \o u
                          ELSE f[Has(NextItem(desc, i), p, u)]
<1> DEFINE size == Len(desc)
           P(k) == Now(desc, UsagePageTag, k.at, k.page)
           U(k) == Now(desc, UsageTag, k.at, k.usage)
           Both(k) == P(k) # <<>> /\ U(k) # <<>>
           After(k) == Has(NextItem(desc, k.at), P(k), U(k))
           Value(k) == IF k.at >= size THEN <<>> ELSE P(k) \o U(k)
           stop == {k \in Known : k.at >= size \/ Both(k)}
           val == [k \in Known |-> Value(k)]
           nxt == [k \in Known |-> IF k.at >= size THEN k ELSE After(k)]
           rank == [k \in Known |-> IF k.at >= size THEN 0 ELSE size - k.at]
           Body(g) == [k \in Known |->
                         IF k.at >= size THEN <<>> ELSE
                           IF Both(k) THEN P(k) \o U(k) ELSE g[After(k)]]
           f == CHOOSE g : g = Body(g)
<1>1. size \in Nat
    OBVIOUS
<1>2. ASSUME NEW k \in Known, ~(k.at >= size)
      PROVE  After(k) \in Known /\ After(k).at > k.at
  <2>1. k.at \in Nat /\ k.page \in Seq(Nat) /\ k.usage \in Seq(Nat)
      BY DEF Known
  <2>2. k.at < Len(desc)
      BY <1>1, <1>2, <2>1
  <2>3. NextItem(desc, k.at) \in Nat /\ NextItem(desc, k.at) > k.at
      BY <2>1, <2>2, NextAhead
  <2>4. P(k) \in Seq(Nat) /\ U(k) \in Seq(Nat)
      BY <2>1, <2>2, NowType
  <2> HIDE DEF P, U
  <2> QED
      BY <2>3, <2>4 DEF Known, Has
<1> HIDE DEF size, P, U
<1>3. \A k \in Known : k.at \in Nat
    BY DEF Known
<1>4. /\ val \in [Known -> {Value(k) : k \in Known}] /\ nxt \in [Known -> Known]
      /\ rank \in [Known -> 0..size]
  <2>1. val \in [Known -> {Value(k) : k \in Known}]
    <3> HIDE DEF Value
    <3> QED
        OBVIOUS
  <2>2. nxt \in [Known -> Known]
    <3> HIDE DEF After
    <3> QED
        BY <1>2
  <2>3. rank \in [Known -> 0..size]
      BY <1>1, <1>3
  <2> QED
      BY <2>1, <2>2, <2>3
<1>5. ASSUME NEW k \in Known, k \notin stop PROVE rank[nxt[k]] < rank[k]
  <2>1. ~(k.at >= size)
      BY <1>5
  <2>2. nxt[k] \in Known /\ nxt[k].at > k.at
    <3>1. nxt[k] = After(k)
        BY <2>1
    <3> HIDE DEF nxt, After
    <3> QED
        BY <1>2, <2>1, <3>1
  <2>3. rank[k] = size - k.at
      BY <2>1
  <2>4. rank[nxt[k]] = IF nxt[k].at >= size THEN 0 ELSE size - nxt[k].at
      BY <2>2
  <2>5. k.at \in Nat /\ nxt[k].at \in Nat
      BY <1>3, <2>2
  <2> HIDE DEF rank, nxt
  <2> QED
      BY <1>1, <2>1, <2>2, <2>3, <2>4, <2>5
<1>6. PICK g \in [Known -> {Value(k) : k \in Known}] : Follows(g, Known, stop, val, nxt)
  <2> HIDE DEF stop, val, nxt, rank, Value
  <2> QED
      BY <1>1, <1>4, <1>5, Recursion
<1>7. \A k \in Known : g[k] = IF k \in stop THEN val[k] ELSE g[nxt[k]]
  <2> HIDE DEF stop, val, nxt
  <2> QED
      BY <1>6, Zenon DEF Follows
<1>8. ASSUME NEW k \in Known
      PROVE  g[k] = IF k.at >= size THEN <<>> ELSE
                      IF Both(k) THEN P(k) \o U(k) ELSE g[After(k)]
  <2> HIDE DEF Both, After
  <2>1. CASE k.at >= size
    <3>1. k \in stop /\ val[k] = <<>>
        BY <2>1
    <3> QED
        BY <1>7, <2>1, <3>1, Zenon
  <2>2. CASE ~(k.at >= size) /\ Both(k)
    <3>1. k \in stop /\ val[k] = P(k) \o U(k)
        BY <2>2
    <3> QED
        BY <1>7, <2>2, <3>1, Zenon
  <2>3. CASE ~(k.at >= size) /\ ~Both(k)
    <3>1. k \notin stop /\ nxt[k] = After(k)
        BY <2>3
    <3> QED
        BY <1>7, <2>3, <3>1, Zenon
  <2> QED
      BY <2>1, <2>2, <2>3
<1>9. g = Body(g)
  <2>1. g = [k \in Known |-> g[k]]
      BY <1>6
  <2> HIDE DEF Both, After
  <2> QED
      BY <1>8, <2>1
<1>10. f = Body(f)
  <2> HIDE DEF Body
  <2> QED
      BY <1>9, Zenon
<1>11. get_usage(desc) = f[Has(0, <<>>, <<>>)]
    BY Zenon DEF get_usage, size, P, U, Has
<1>12. \A k \in Known : f[k] = IF k.at >= size THEN <<>> ELSE
                                 IF Both(k) THEN P(k) \o U(k) ELSE f[After(k)]
  <2> HIDE DEF f, Both, After
  <2> QED
      BY <1>10
<1> HIDE DEF f
<1>13. ASSUME NEW i \in Nat, NEW page \in Seq(Nat), NEW usage \in Seq(Nat)
       PROVE  LET p == Now(desc, UsagePageTag, i, page)
                  u == Now(desc, UsageTag, i, usage)
              IN  f[Has(i, page, usage)] =
                    IF i >= Len(desc) THEN <<>> ELSE
                      IF p # <<>> /\ u # <<>> THEN p \o u
                      ELSE f[Has(NextItem(desc, i), p, u)]
  <2> DEFINE k == Has(i, page, usage)
  <2>1. k \in Known /\ k.at = i /\ k.page = page /\ k.usage = usage
      BY DEF Known, Has
  <2> HIDE DEF k
  <2>2. f[k] = IF k.at >= size THEN <<>> ELSE
                 IF Both(k) THEN P(k) \o U(k) ELSE f[After(k)]
      BY <1>12, <2>1, Zenon
  <2> QED
      BY <2>1, <2>2, Zenon DEF k, size, P, U
<1> QED
    BY <1>11, <1>13, Zenon

\* The walk over a whole descriptor meets every item.
LEMMA NextWhole ==
    ASSUME NEW items \in Seq(Items), NEW k \in 1..Len(items)
    PROVE  /\ Start(items, k) \in Nat /\ Start(items, k) < Len(Encode(items))
           /\ Encode(items)[Start(items, k) + 1] = items[k].key
           /\ NextItem(Encode(items), Start(items, k)) = Start(items, k + 1)
           /\ ~LongItem(items[k].key) =>
                DataLen(Encode(items), Start(items, k)) = Len(items[k].rest)
<1> DEFINE desc == Encode(items)
           i == Start(items, k)
           x == items[k]
           next == Start(items, k + 1)
           n == Len(x.rest)
<1>1. /\ desc \in Seq(Byte) /\ i \in Nat /\ x \in Items
      /\ next = i + 1 + n /\ next <= Len(desc)
      /\ desc[i + 1] = x.key
      /\ \A j \in 1..n : desc[i + 1 + j] = x.rest[j]
    BY Layout
<1>2. x.rest \in Seq(Byte) /\ n \in Nat
      /\ IF LongItem(x.key)
         THEN n >= 2 /\ n = x.rest[1] + 2
         ELSE n = IF x.key % 4 = 3 THEN 4 ELSE x.key % 4
    BY <1>1 DEF Items
<1>3. Len(desc) \in Nat
    BY EncodeBytes
<1> HIDE DEF desc, i, x, next, n
<1>4. i < Len(desc)
    BY <1>1, <1>2, <1>3
<1>5. ~LongItem(x.key) => DataLen(desc, i) = n
    BY <1>1, <1>2 DEF DataLen
<1>6. NextItem(desc, i) = next
  <2>1. CASE ~LongItem(x.key)
    <3>1. NextItem(desc, i) = i + n + 1
        BY <1>1, <1>5, <2>1 DEF NextItem
    <3> QED
        BY <1>1, <1>2, <3>1
  <2>2. CASE LongItem(x.key)
    <3>1. n >= 2 /\ n = x.rest[1] + 2
        BY <1>2, <2>2
    <3>2. i + 1 < Len(desc) /\ 1 \in 1..n /\ i + 1 + 1 = i + 2
        BY <1>1, <1>2, <1>3, <3>1
    <3>3. desc[i + 2] = x.rest[1]
        BY <1>1, <3>2
    <3>4. x.rest[1] \in Nat
      <4>1. x.rest[1] \in Byte
          BY <1>2, <3>2 DEF n
      <4> QED
          BY <4>1, ByteIs
    <3>5. DataLen(desc, i) = x.rest[1]
        BY <1>1, <2>2, <3>2, <3>3 DEF DataLen
    <3> DEFINE v == x.rest[1]
    <3>6. v \in Nat /\ n = v + 2 /\ NextItem(desc, i) = i + v + 3
        BY <1>1, <2>2, <3>1, <3>4, <3>5 DEF NextItem
    <3> HIDE DEF v
    <3> QED
        BY <1>1, <1>2, <3>6
  <2> QED
      BY <2>1, <2>2
<1> QED
    BY <1>1, <1>4, <1>5, <1>6 DEF desc, i, x, next, n

\* What get_bytes() gives for a usage or a page.
LEMMA ValueIs ==
    ASSUME NEW items \in Seq(Items), NEW k \in 1..Len(items),
           Tag(items[k].key) \in {UsageTag, UsagePageTag}
    PROVE  get_bytes(Encode(items), Start(items, k)) = ValueOf(items[k])
<1> DEFINE desc == Encode(items)
           i == Start(items, k)
           x == items[k]
           n == Len(x.rest)
           next == Start(items, k + 1)
<1>1. /\ desc \in Seq(Byte) /\ i \in Nat /\ x \in Items
      /\ next = i + 1 + n /\ next <= Len(desc)
      /\ \A j \in 1..n : desc[i + 1 + j] = x.rest[j]
    BY Layout
<1>2. x.key \in Byte /\ x.rest \in Seq(Byte) /\ n \in Nat
      /\ (~LongItem(x.key) => n = IF x.key % 4 = 3 THEN 4 ELSE x.key % 4)
    BY <1>1 DEF Items
<1>3. ~LongItem(x.key) /\ x.key % 4 \in 0..3
  <2> DEFINE key == x.key
  <2>1. key \in 0..255
      BY <1>2 DEF Byte
  <2>2. key - (key % 4) \in {4, 8}
      BY DEF Tag, UsageTag, UsagePageTag
  <2> HIDE DEF key, x
  <2>3. key % 4 \in 0..3 /\ ~(key >= 240)
      BY <2>1, <2>2
  <2> QED
      BY <2>3 DEF key, LongItem
<1>4. n \in {0, 1, 2, 4}
  <2> HIDE DEF x, n
  <2>1. n = IF x.key % 4 = 3 THEN 4 ELSE x.key % 4
      BY <1>2, <1>3, Zenon
  <2> QED
      BY <1>3, <2>1
<1>5. DataLen(desc, i) = n
    BY <1>3, NextWhole
<1> HIDE DEF desc, i, x, next, n
<1>6. i + n < Len(desc) /\ Len(desc) \in Nat
    BY <1>1, <1>2
<1>7. get_bytes(desc, i) =
        CASE i + n >= Len(desc) \/ n \notin {1, 2, 4} -> 0
          [] i + n < Len(desc) /\ n = 1 -> desc[i + 2]
          [] i + n < Len(desc) /\ n \in {2, 4} -> desc[i + 3] * 256 + desc[i + 2]
    BY <1>5 DEF get_bytes
<1>8. ValueOf(x) = CASE n \in {0, 3} -> 0
                     [] n = 1 -> x.rest[1]
                     [] n \in {2, 4} -> x.rest[1] + 256 * x.rest[2]
    BY DEF ValueOf, n
<1>9. \A j \in 1..n : x.rest[j] \in Nat
  <2>1. \A j \in 1..n : x.rest[j] \in Byte
      BY <1>2 DEF n
  <2> QED
      BY <2>1, ByteIs
<1>10. get_bytes(desc, i) = ValueOf(x)
  <2>1. CASE n = 0
      BY <1>6, <1>7, <1>8, <2>1
  <2>2. CASE n = 1
    <3>1. 1 \in 1..n /\ i + 1 + 1 = i + 2
        BY <1>1, <2>2
    <3>2. desc[i + 2] = x.rest[1]
        BY <1>1, <3>1
    <3>3. get_bytes(desc, i) = desc[i + 2] /\ ValueOf(x) = x.rest[1]
        BY <1>1, <1>6, <1>7, <1>8, <2>2
    <3> QED
        BY <3>2, <3>3
  <2>3. CASE n \in {2, 4}
    <3>1. 1 \in 1..n /\ 2 \in 1..n /\ i + 1 + 1 = i + 2 /\ i + 1 + 2 = i + 3
        BY <1>1, <2>3
    <3>2. desc[i + 2] = x.rest[1] /\ desc[i + 3] = x.rest[2]
        BY <1>1, <3>1
    <3>3. get_bytes(desc, i) = desc[i + 3] * 256 + desc[i + 2]
        BY <1>1, <1>6, <1>7, <2>3
    <3>4. ValueOf(x) = x.rest[1] + 256 * x.rest[2]
        BY <1>8, <2>3
    <3>5. x.rest[1] \in Nat /\ x.rest[2] \in Nat
        BY <1>9, <3>1
    <3> DEFINE a == x.rest[1]
               b == x.rest[2]
    <3>6. /\ get_bytes(desc, i) = b * 256 + a /\ ValueOf(x) = a + 256 * b
          /\ a \in Nat /\ b \in Nat
        BY <3>2, <3>3, <3>4, <3>5
    <3> HIDE DEF a, b
    <3>7. b * 256 + a = a + 256 * b
        BY <3>6
    <3> QED
        BY <3>6, <3>7, Zenon
  <2> QED
      BY <1>4, <2>1, <2>2, <2>3
<1> QED
    BY <1>10 DEF desc, i, x

-----------------------------------------------------------------------------
(* What get_usage() has when it comes to item k.                           *)

Earlier(items, tag, k) == {j \in ItemsWith(items, tag) : j < k}
Seen(items, tag, k) ==
    IF Earlier(items, tag, k) = {} THEN <<>>
    ELSE <<ValueOf(items[Greatest(Earlier(items, tag, k))])>>

LEMMA GreatestIs ==
    ASSUME NEW S, S \subseteq Nat, NEW k \in S, \A l \in S : k >= l
    PROVE  Greatest(S) = k
<1>1. \A j \in S : (\A l \in S : j >= l) => j = k
  <2>1. SUFFICES ASSUME NEW j \in S, \A l \in S : j >= l PROVE j = k
      OBVIOUS
  <2>2. j >= k /\ k >= j /\ j \in Nat /\ k \in Nat
      BY <2>1
  <2> QED
      BY <2>2
<1>2. Greatest(S) \in S /\ \A l \in S : Greatest(S) >= l
    BY Zenon DEF Greatest
<1> QED
    BY <1>1, <1>2, Zenon

LEMMA LeastIs ==
    ASSUME NEW S, S \subseteq Nat, S # {}
    PROVE  Least(S) \in S /\ \A l \in S : Least(S) <= l
BY LeastNat, Zenon DEF Least

\* The next one it has.
LEMMA SeenNext ==
    ASSUME NEW items \in Seq(Items), NEW k \in 1..Len(items),
           NEW tag \in {UsageTag, UsagePageTag}
    PROVE  /\ Now(Encode(items), tag, Start(items, k), Seen(items, tag, k))
                = Seen(items, tag, k + 1)
           /\ Earlier(items, tag, k) \subseteq Earlier(items, tag, k + 1)
           /\ k \in ItemsWith(items, tag) =>
                 Seen(items, tag, k + 1) = <<ValueOf(items[k])>>
           /\ k \notin ItemsWith(items, tag) =>
                 Earlier(items, tag, k + 1) = Earlier(items, tag, k)
<1> DEFINE E(m) == Earlier(items, tag, m)
<1>1. k \in Nat /\ k + 1 > k /\ \A j \in Nat : j < k + 1 <=> j < k \/ j = k
    OBVIOUS
<1>2. E(k) \subseteq E(k + 1) /\ ItemsWith(items, tag) \subseteq Nat
      /\ \A j \in E(k + 1) : j \in E(k) \/ (j = k /\ k \in ItemsWith(items, tag))
    BY DEF Earlier, ItemsWith
<1>3. Encode(items)[Start(items, k) + 1] = items[k].key
    BY NextWhole
<1>4. k \in ItemsWith(items, tag) <=> Tag(items[k].key) = tag
    BY DEF ItemsWith
<1>5. CASE k \in ItemsWith(items, tag)
  <2>1. k \in E(k + 1) /\ E(k + 1) \subseteq Nat /\ \A l \in E(k + 1) : k >= l
      BY <1>5, <1>1 DEF Earlier, ItemsWith
  <2>2. Greatest(E(k + 1)) = k
    <3> HIDE DEF E
    <3> QED
      BY <2>1, GreatestIs
  <2>3. Seen(items, tag, k + 1) = <<ValueOf(items[k])>>
      BY <2>1, <2>2 DEF Seen
  <2>4. get_bytes(Encode(items), Start(items, k)) = ValueOf(items[k])
      BY <1>4, <1>5, ValueIs
  <2>5. Now(Encode(items), tag, Start(items, k), Seen(items, tag, k))
          = <<ValueOf(items[k])>>
      BY <1>3, <1>4, <1>5, <2>4 DEF Now
  <2> QED
      BY <1>2, <1>5, <2>3, <2>5
<1>6. CASE k \notin ItemsWith(items, tag)
  <2>1. E(k + 1) = E(k)
      BY <1>2, <1>6
  <2>2. Now(Encode(items), tag, Start(items, k), Seen(items, tag, k))
          = Seen(items, tag, k)
      BY <1>3, <1>4, <1>6 DEF Now
  <2> QED
      BY <1>6, <2>1, <2>2 DEF Seen
<1> QED
    BY <1>5, <1>6

\* Until it has both, get_usage() has the last page and the last usage.
LEMMA UsageUntil ==
    ASSUME NEW items \in Seq(Items), NEW f,
           \A i \in Nat, page \in Seq(Nat), usage \in Seq(Nat) :
              LET p == Now(Encode(items), UsagePageTag, i, page)
                  u == Now(Encode(items), UsageTag, i, usage)
              IN  f[Has(i, page, usage)] =
                    IF i >= Len(Encode(items)) THEN <<>> ELSE
                      IF p # <<>> /\ u # <<>> THEN p \o u
                      ELSE f[Has(NextItem(Encode(items), i), p, u)]
    PROVE  \A k \in 1..Len(items) + 1 :
             \/ Earlier(items, UsagePageTag, k) = {}
             \/ Earlier(items, UsageTag, k) = {}
             => IF k <= Len(items)
                THEN LET p == Seen(items, UsagePageTag, k + 1)
                         u == Seen(items, UsageTag, k + 1)
                     IN  p # <<>> /\ u # <<>> => f[Has(0, <<>>, <<>>)] = p \o u
                ELSE f[Has(0, <<>>, <<>>)] = <<>>
<1> DEFINE desc == Encode(items)
           N == Len(items)
           p(k) == Seen(items, UsagePageTag, k)
           u(k) == Seen(items, UsageTag, k)
           None(k) == \/ Earlier(items, UsagePageTag, k) = {}
                      \/ Earlier(items, UsageTag, k) = {}
           S == {n \in Nat : n <= N =>
                   /\ p(n + 1) \in Seq(Nat) /\ u(n + 1) \in Seq(Nat)
                   /\ None(n + 1) =>
                        f[Has(0, <<>>, <<>>)] =
                          f[Has(Start(items, n + 1), p(n + 1), u(n + 1))]}
<1>0. N \in Nat /\ desc \in Seq(Byte) /\ Len(desc) \in Nat
    BY EncodeBytes
<1>a. \A i \in Nat, page \in Seq(Nat), usage \in Seq(Nat) :
        f[Has(i, page, usage)] =
           IF i >= Len(desc) THEN <<>> ELSE
             IF /\ Now(desc, UsagePageTag, i, page) # <<>>
                /\ Now(desc, UsageTag, i, usage) # <<>>
             THEN Now(desc, UsagePageTag, i, page) \o Now(desc, UsageTag, i, usage)
             ELSE f[Has(NextItem(desc, i), Now(desc, UsagePageTag, i, page),
                       Now(desc, UsageTag, i, usage))]
    BY Zenon
<1> HIDE DEF desc
<1>1. ASSUME NEW k \in 1..N
      PROVE  /\ Start(items, k) \in Nat /\ ~(Start(items, k) >= Len(desc))
             /\ Start(items, k) < Len(desc)
             /\ NextItem(desc, Start(items, k)) = Start(items, k + 1)
             /\ Now(desc, UsagePageTag, Start(items, k), p(k)) = p(k + 1)
             /\ Now(desc, UsageTag, Start(items, k), u(k)) = u(k + 1)
             /\ None(k + 1) => None(k)
             /\ None(k + 1) => ~(p(k + 1) # <<>> /\ u(k + 1) # <<>>)
  <2>1. /\ Start(items, k) \in Nat /\ Start(items, k) < Len(desc)
        /\ NextItem(desc, Start(items, k)) = Start(items, k + 1)
      BY NextWhole DEF desc
  <2>2. ~(Start(items, k) >= Len(desc))
      BY <1>0, <2>1
  <2>3. /\ Now(desc, UsagePageTag, Start(items, k), p(k)) = p(k + 1)
        /\ Earlier(items, UsagePageTag, k) \subseteq Earlier(items, UsagePageTag, k + 1)
      BY SeenNext, Zenon DEF desc
  <2>4. /\ Now(desc, UsageTag, Start(items, k), u(k)) = u(k + 1)
        /\ Earlier(items, UsageTag, k) \subseteq Earlier(items, UsageTag, k + 1)
      BY SeenNext, Zenon DEF desc
  <2>5. None(k + 1) => None(k)
      BY <2>3, <2>4
  <2>6. None(k + 1) => ~(p(k + 1) # <<>> /\ u(k + 1) # <<>>)
      BY Zenon DEF Seen
  <2> HIDE DEF p, u, None
  <2> QED
      BY <2>1, <2>2, <2>3, <2>4, <2>5, <2>6
<1>2. 0 \in S
  <2>1. /\ 0 + 1 = 1 /\ Start(items, 1) = 0
      BY UpToNone
  <2>2. \A tag : Earlier(items, tag, 1) = {}
      BY DEF Earlier, ItemsWith
  <2>3. p(1) = <<>> /\ u(1) = <<>>
      BY <2>2, Zenon DEF Seen
  <2>4. <<>> \in Seq(Nat)
      OBVIOUS
  <2> HIDE DEF p, u, None
  <2> QED
      BY <2>1, <2>3, <2>4
<1>3. ASSUME NEW n \in Nat, n \in S PROVE n + 1 \in S
  <2> DEFINE k == n + 1
             i == Start(items, k)
  <2> HIDE DEF p, u, None
  <2>0. n + 1 \in Nat
      OBVIOUS
  <2>1. SUFFICES ASSUME k <= N
                 PROVE  /\ p(k + 1) \in Seq(Nat) /\ u(k + 1) \in Seq(Nat)
                        /\ None(k + 1) =>
                             f[Has(0, <<>>, <<>>)] =
                               f[Has(Start(items, k + 1), p(k + 1), u(k + 1))]
      BY <2>0, Zenon
  <2>2. k \in 1..N /\ n <= N
      BY <1>0, <2>1
  <2>3. /\ p(k) \in Seq(Nat) /\ u(k) \in Seq(Nat)
        /\ None(k) => f[Has(0, <<>>, <<>>)] = f[Has(i, p(k), u(k))]
      BY <1>3, <2>2, Zenon
  <2> HIDE DEF k
  <2>4. /\ i \in Nat /\ ~(i >= Len(desc)) /\ i < Len(desc)
        /\ NextItem(desc, i) = Start(items, k + 1)
        /\ Now(desc, UsagePageTag, i, p(k)) = p(k + 1)
        /\ Now(desc, UsageTag, i, u(k)) = u(k + 1)
        /\ None(k + 1) => None(k)
        /\ None(k + 1) => ~(p(k + 1) # <<>> /\ u(k + 1) # <<>>)
      BY <1>1, <2>2
  <2> HIDE DEF i
  <2>5. p(k + 1) \in Seq(Nat) /\ u(k + 1) \in Seq(Nat)
    <3>1. /\ Now(desc, UsagePageTag, i, p(k)) \in Seq(Nat)
          /\ Now(desc, UsageTag, i, u(k)) \in Seq(Nat)
        BY <1>0, <2>3, <2>4, NowType
    <3> QED
        BY <2>4, <3>1, Zenon
  <2>6. f[Has(i, p(k), u(k))] =
           IF p(k + 1) # <<>> /\ u(k + 1) # <<>> THEN p(k + 1) \o u(k + 1)
           ELSE f[Has(Start(items, k + 1), p(k + 1), u(k + 1))]
    <3>1. f[Has(i, p(k), u(k))] =
           IF i >= Len(desc) THEN <<>> ELSE
             IF /\ Now(desc, UsagePageTag, i, p(k)) # <<>>
                /\ Now(desc, UsageTag, i, u(k)) # <<>>
             THEN Now(desc, UsagePageTag, i, p(k)) \o Now(desc, UsageTag, i, u(k))
             ELSE f[Has(NextItem(desc, i), Now(desc, UsagePageTag, i, p(k)),
                       Now(desc, UsageTag, i, u(k)))]
        BY <1>a, <2>3, <2>4, Zenon
    <3> QED
        BY <2>4, <3>1, Zenon
  <2> QED
      BY <2>3, <2>4, <2>5, <2>6, Zenon
<1> HIDE DEF S, p, u, None
<1>4. Nat \subseteq S
    BY <1>2, <1>3, SetInduction
<1>5. ASSUME NEW k \in 1..N + 1, None(k)
      PROVE  IF k <= N
             THEN p(k + 1) # <<>> /\ u(k + 1) # <<>> =>
                    f[Has(0, <<>>, <<>>)] = p(k + 1) \o u(k + 1)
             ELSE f[Has(0, <<>>, <<>>)] = <<>>
  <2>1. k - 1 \in Nat /\ k - 1 <= N /\ (k - 1) + 1 = k
      BY <1>0
  <2>2. k - 1 \in S
      BY <1>4, <2>1
  <2>3. /\ p(k) \in Seq(Nat) /\ u(k) \in Seq(Nat)
        /\ f[Has(0, <<>>, <<>>)] = f[Has(Start(items, k), p(k), u(k))]
      BY <1>5, <2>1, <2>2, Zenon DEF S
  <2>4. CASE k <= N
    <3>1. k \in 1..N
        BY <1>0, <2>4
    <3> DEFINE i == Start(items, k)
    <3>2. /\ i \in Nat /\ ~(i >= Len(desc))
          /\ Now(desc, UsagePageTag, i, p(k)) = p(k + 1)
          /\ Now(desc, UsageTag, i, u(k)) = u(k + 1)
        BY <1>1, <3>1
    <3> HIDE DEF i
    <3>3. f[Has(i, p(k), u(k))] =
           IF i >= Len(desc) THEN <<>> ELSE
             IF /\ Now(desc, UsagePageTag, i, p(k)) # <<>>
                /\ Now(desc, UsageTag, i, u(k)) # <<>>
             THEN Now(desc, UsagePageTag, i, p(k)) \o Now(desc, UsageTag, i, u(k))
             ELSE f[Has(NextItem(desc, i), Now(desc, UsagePageTag, i, p(k)),
                       Now(desc, UsageTag, i, u(k)))]
        BY <1>a, <2>3, <3>2, Zenon
    <3> QED
        BY <2>3, <2>4, <3>2, <3>3, Zenon DEF i
  <2>5. CASE ~(k <= N)
    <3>1. k = N + 1
        BY <1>0, <2>5
    <3>2. Start(items, k) = Len(desc)
        BY <3>1, UpToAll DEF desc
    <3>3. Start(items, k) \in Nat /\ Start(items, k) >= Len(desc)
        BY <1>0, <3>2
    <3>4. f[Has(Start(items, k), p(k), u(k))] = <<>>
        BY <1>a, <2>3, <3>3, Zenon
    <3> QED
        BY <2>3, <2>5, <3>4, Zenon
  <2> QED
      BY <2>4, <2>5
<1> QED
    BY <1>5, Zenon DEF p, u, None

LEMMA Pair ==
    ASSUME NEW a, NEW b
    PROVE  <<a>> # <<>> /\ <<a>> \o <<b>> = <<a, b>>
<1> DEFINE T == {a, b}
           s == <<a>>
           t == <<b>>
<1>1. /\ s \in Seq(T) /\ Len(s) = 1 /\ s[1] = a
      /\ t \in Seq(T) /\ Len(t) = 1 /\ t[1] = b
    OBVIOUS
<1>2. <<a, b>> \in Seq(T) /\ Len(<<a, b>>) = 2
      /\ <<a, b>>[1] = a /\ <<a, b>>[2] = b
    OBVIOUS
<1>3. /\ s \o t \in Seq(T) /\ Len(s \o t) = 2
      /\ (s \o t)[1] = a /\ (s \o t)[2] = b
  <2> HIDE DEF s, t, T
  <2> QED
      BY <1>1, ConcatProperties
<1>4. \A j \in 1..2 : j = 1 \/ j = 2
    OBVIOUS
<1> DEFINE r == s \o t
           q == <<a, b>>
<1>5. \A j \in 1..2 : r[j] = q[j]
    BY <1>2, <1>3, <1>4, Zenon
<1>6. r = q
  <2> HIDE DEF r, q, T
  <2>1. r \in Seq(T) /\ q \in Seq(T) /\ Len(r) = 2 /\ Len(q) = 2
      BY <1>2, <1>3 DEF r, q
  <2> QED
      BY <1>5, <2>1, SeqEqual
<1>7. s # <<>>
    BY <1>1
<1> QED
    BY <1>6, <1>7, Zenon

\* get_usage() of libusb/hid.c is right about every descriptor: it fails iff a
\* usage or a page is missing, and otherwise gives the first usage with the last
\* page in front of it, or the first page with the last usage in front of it,
\* depending on which of the two it meets last; and it reads the values right.
THEOREM UsageSound == \A items \in Seq(Items) : UsageRight(items)
<1>1. SUFFICES ASSUME NEW items \in Seq(Items) PROVE UsageRight(items)
    OBVIOUS
<1> DEFINE desc == Encode(items)
           N == Len(items)
           usages == ItemsWith(items, UsageTag)
           pages == ItemsWith(items, UsagePageTag)
           p(k) == Seen(items, UsagePageTag, k)
           u(k) == Seen(items, UsageTag, k)
           before == {k \in pages : k < Least(usages)}
<1>2. desc \in Seq(Byte) /\ N \in Nat
    BY EncodeBytes
<1>3. PICK f :
        /\ get_usage(desc) = f[Has(0, <<>>, <<>>)]
        /\ \A i \in Nat, page \in Seq(Nat), usage \in Seq(Nat) :
             LET q == Now(desc, UsagePageTag, i, page)
                 v == Now(desc, UsageTag, i, usage)
             IN  f[Has(i, page, usage)] =
                   IF i >= Len(desc) THEN <<>> ELSE
                     IF q # <<>> /\ v # <<>> THEN q \o v
                     ELSE f[Has(NextItem(desc, i), q, v)]
  <2> HIDE DEF desc
  <2> QED
      BY <1>2, UsageWalk
<1>4. \A k \in 1..N + 1 :
        \/ Earlier(items, UsagePageTag, k) = {}
        \/ Earlier(items, UsageTag, k) = {}
        => IF k <= N
           THEN p(k + 1) # <<>> /\ u(k + 1) # <<>> => get_usage(desc) = p(k + 1) \o u(k + 1)
           ELSE get_usage(desc) = <<>>
  <2>1. \A k \in 1..N + 1 :
          \/ Earlier(items, UsagePageTag, k) = {}
          \/ Earlier(items, UsageTag, k) = {}
          => IF k <= N
             THEN p(k + 1) # <<>> /\ u(k + 1) # <<>>
                    => f[Has(0, <<>>, <<>>)] = p(k + 1) \o u(k + 1)
             ELSE f[Has(0, <<>>, <<>>)] = <<>>
      BY <1>3, UsageUntil, Zenon
  <2> HIDE DEF p, u
  <2> QED
      BY <1>3, <2>1, Zenon
<1>5. usages \subseteq 1..N /\ pages \subseteq 1..N /\ 1..N \subseteq Nat
    BY DEF ItemsWith
<1>6. CASE usages = {} \/ pages = {}
  <2>1. \/ Earlier(items, UsagePageTag, N + 1) = {}
        \/ Earlier(items, UsageTag, N + 1) = {}
      BY <1>6 DEF Earlier
  <2>2. N + 1 \in 1..N + 1 /\ ~(N + 1 <= N)
      BY <1>2
  <2>3. get_usage(desc) = <<>>
      BY <1>4, <2>1, <2>2, Zenon
  <2> QED
      BY <1>6, <2>3, Zenon DEF UsageRight
<1>7. CASE usages # {} /\ pages # {}
  <2> DEFINE u0 == Least(usages)
             p0 == Least(pages)
  <2>1. /\ u0 \in usages /\ \A j \in usages : u0 <= j
        /\ p0 \in pages /\ \A j \in pages : p0 <= j
    <3> HIDE DEF usages, pages
    <3> QED
        BY <1>5, <1>7, LeastIs
  <2>2. \A k : ~(k \in usages /\ k \in pages)
      BY DEF ItemsWith, UsageTag, UsagePageTag
  <2>3. u0 \in 1..N /\ p0 \in 1..N /\ u0 # p0 /\ u0 \in Nat /\ p0 \in Nat
      BY <1>5, <2>1, <2>2
  <2> HIDE DEF u0, p0
  <2>a. \A k \in Nat : \A j \in 1..N : ~(j <= k /\ j > k)
      OBVIOUS
  <2>4. CASE p0 < u0
    <3>1. Earlier(items, UsageTag, u0) = {}
        BY <1>5, <2>1, <2>3 DEF Earlier
    <3>2. p(u0 + 1) = <<ValueOf(items[Greatest(before)])>> /\ before # {}
      <4>1. Earlier(items, UsagePageTag, u0 + 1) = Earlier(items, UsagePageTag, u0)
          BY <2>1, <2>2, <2>3, SeenNext
      <4>2. Earlier(items, UsagePageTag, u0) = before
          BY DEF Earlier, u0
      <4>3. p0 \in before
          BY <2>1, <2>4 DEF u0
      <4> QED
          BY <4>1, <4>2, <4>3 DEF Seen
    <3>3. u(u0 + 1) = <<ValueOf(items[u0])>>
        BY <2>1, <2>3, SeenNext
    <3>4. u0 \in 1..N + 1 /\ u0 <= N
        BY <1>2, <2>3
    <3>a. p(u0 + 1) # <<>> /\ u(u0 + 1) # <<>>
      <4> HIDE DEF p, u
      <4> QED
          BY <3>2, <3>3, Pair, Zenon
    <3>5. get_usage(desc) = p(u0 + 1) \o u(u0 + 1)
      <4> HIDE DEF p, u, desc
      <4> QED
          BY <1>4, <3>1, <3>4, <3>a, Zenon
    <3>6. get_usage(desc) = <<ValueOf(items[Greatest(before)]), ValueOf(items[u0])>>
      <4> HIDE DEF p, u
      <4> QED
          BY <3>2, <3>3, <3>5, Pair, Zenon
    <3> QED
        BY <1>7, <3>2, <3>6, Zenon DEF UsageRight, u0
  <2>5. CASE u0 < p0
    <3>1. Earlier(items, UsagePageTag, p0) = {}
        BY <1>5, <2>1, <2>3 DEF Earlier
    <3> DEFINE last == {k \in usages : k < p0}
    <3>2. u(p0 + 1) = <<ValueOf(items[Greatest(last)])>>
      <4>1. Earlier(items, UsageTag, p0 + 1) = Earlier(items, UsageTag, p0)
          BY <2>1, <2>2, <2>3, SeenNext
      <4>2. Earlier(items, UsageTag, p0) = last
          BY DEF Earlier
      <4>3. u0 \in last
          BY <2>1, <2>5
      <4> QED
          BY <4>1, <4>2, <4>3 DEF Seen
    <3>3. p(p0 + 1) = <<ValueOf(items[p0])>>
        BY <2>1, <2>3, SeenNext
    <3>4. p0 \in 1..N + 1 /\ p0 <= N
        BY <1>2, <2>3
    <3>a. p(p0 + 1) # <<>> /\ u(p0 + 1) # <<>>
      <4> HIDE DEF p, u
      <4> QED
          BY <3>2, <3>3, Pair, Zenon
    <3>5. get_usage(desc) = p(p0 + 1) \o u(p0 + 1)
      <4> HIDE DEF p, u, desc
      <4> QED
          BY <1>4, <3>1, <3>4, <3>a, Zenon
    <3>6. get_usage(desc) = <<ValueOf(items[p0]), ValueOf(items[Greatest(last)])>>
      <4> HIDE DEF p, u
      <4> QED
          BY <3>2, <3>3, <3>5, Pair, Zenon
    <3>7. before = {}
      <4>1. \A k \in pages : ~(k < u0)
          BY <1>5, <2>1, <2>3, <2>5
      <4> QED
          BY <4>1 DEF u0
    <3> QED
        BY <1>7, <3>6, <3>7, Zenon DEF UsageRight, p0
  <2> QED
      BY <2>3, <2>4, <2>5
<1> QED
    BY <1>6, <1>7
=============================================================================

--------------------------- MODULE HidDescriptor ---------------------------
(***************************************************************************)
(* The two parsers of HID report descriptors in hidapi: the Linux version  *)
(* looks for a report ID, the libusb version for a usage and its page.     *)
(* Both walk over the items, of which a key gives the length.  The second  *)
(* is compiled only with INVASIVE_GET_USAGE.                               *)
(*                                                                         *)
(* A descriptor is a sequence of bytes; an item of it starts at byte i + 1. *)
(***************************************************************************)
EXTENDS Naturals, Sequences, SequencesExt

ReportID == 133        \* 0x85
LongItem(key) == key >= 240
Tag(key) == key - (key % 4)
UsagePageTag == 4
UsageTag == 8

\* Long items have the length of their data in the next byte, if there is one;
\* short ones have a code for it in their key.
DataLen(desc, i) ==
    LET key == desc[i + 1]
    IN  IF LongItem(key)
        THEN IF i + 1 < Len(desc) THEN desc[i + 2] ELSE 0
        ELSE IF key % 4 = 3 THEN 4 ELSE key % 4

NextItem(desc, i) ==
    i + DataLen(desc, i) + (IF LongItem(desc[i + 1]) THEN 3 ELSE 1)

uses_numbered_reports(desc) ==
    LET from[i \in Nat] ==
          /\ i < Len(desc)
          /\ desc[i + 1] = ReportID \/ from[NextItem(desc, i)]
    IN  from[0]

\* The value of an item, as an unsigned short; 0 if bytes are missing.
get_bytes(desc, i) ==
    LET n == DataLen(desc, i)
    IN  CASE i + n >= Len(desc) \/ n \notin {1, 2, 4} -> 0
          [] i + n < Len(desc) /\ n = 1 -> desc[i + 2]
          [] i + n < Len(desc) /\ n \in {2, 4} -> desc[i + 3] * 256 + desc[i + 2]

\* What get_usage() has when it comes to byte at + 1.
Known == [at : Nat, page : Seq(Nat), usage : Seq(Nat)]

Now(desc, tag, i, before) ==
    IF Tag(desc[i + 1]) = tag THEN <<get_bytes(desc, i)>> ELSE before

\* The page and the usage, or -1 for failure when one of them is not there.
get_usage(desc) ==
    LET from[k \in Known] ==
          IF k.at >= Len(desc) THEN <<>>
          ELSE LET p == Now(desc, UsagePageTag, k.at, k.page)
                   u == Now(desc, UsageTag, k.at, k.usage)
               IN  IF p # <<>> /\ u # <<>> THEN p \o u
                   ELSE from[[at |-> NextItem(desc, k.at), page |-> p, usage |-> u]]
    IN  from[[at |-> 0, page |-> <<>>, usage |-> <<>>]]

-----------------------------------------------------------------------------
(* What they should find, said of the items of which a descriptor is made. *)

\* An item: its key and the bytes that follow.
Encode(items) == FlattenSeq([k \in 1..Len(items) |-> <<items[k].key>> \o items[k].rest])

\* uses_numbered_reports(): an item is a report ID; bytes of data that look
\* like one do not count, nor does what a descriptor that is cut off lacks.
NumberedRight(items, size) ==
    LET desc == Encode(items)
        start(k) == Len(Encode(SubSeq(items, 1, k - 1)))
    IN  uses_numbered_reports(SubSeq(desc, 1, size)) <=>
            \E k \in 1..Len(items) : items[k].key = ReportID /\ start(k) < size

\* The value an item should have, and the items with a tag.
ValueOf(x) == CASE Len(x.rest) \in {0, 3} -> 0
                [] Len(x.rest) = 1 -> x.rest[1]
                [] Len(x.rest) \in {2, 4} -> x.rest[1] + 256 * x.rest[2]
ItemsWith(items, tag) == {k \in 1..Len(items) : Tag(items[k].key) = tag}
Least(S) == CHOOSE k \in S : \A l \in S : k <= l
Greatest(S) == CHOOSE k \in S : \A l \in S : k >= l

\* get_usage(): the first usage, and the last usage page in front of it; the
\* first page behind it when there is none.  (The comment of the code says the
\* first page.)
UsageRight(items) ==
    LET usages == ItemsWith(items, UsageTag)
        pages == ItemsWith(items, UsagePageTag)
        before == {k \in pages : k < Least(usages)}
    IN  IF usages = {} \/ pages = {} THEN get_usage(Encode(items)) = <<>>
        ELSE get_usage(Encode(items)) =
             IF before # {}
             THEN <<ValueOf(items[Greatest(before)]), ValueOf(items[Least(usages)])>>
             ELSE <<ValueOf(items[Least(pages)]),
                    ValueOf(items[Greatest({k \in usages : k < Least(pages)})])>>
=============================================================================

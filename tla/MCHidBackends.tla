--------------------------- MODULE MCHidBackends ---------------------------
(* The instance of HidBackends that TLC checks, and the two parsers of      *)
(* descriptors for all descriptors of up to three items.                    *)
EXTENDS HidBackends, HidDescriptor

MCSerials == {"s"}
MCBackends == {"mac", "windows", "linux", "libusb"}

D(i, s, c) == [id |-> i, serial |-> s, cond |-> c]

\* Up to three devices: every condition occurs alone, between and around others
\* of the same and of another vendor and product, with and without a serial.
MCInputs ==
    LET conds == UNION {Conditions[b] : b \in MCBackends}
        plain == [mac |-> "listed", windows |-> "listed", linux |-> "usb",
                  libusb |-> "listed"]
    IN  UNION {{<<D(1, s, c)>>, <<D(1, "s", plain[b]), D(1, s, c)>>,
                <<D(1, s, c), D(2, "s", plain[b])>>,
                <<D(2, "s", plain[b]), D(1, s, c), D(1, "s", plain[b])>>} :
                 b \in MCBackends, s \in {"s", NoSerial}, c \in conds}

\* Items of every length: report IDs, usages, pages and others, a long one, and
\* data that looks like a key.
Item(k, r) == [key |-> k, rest |-> r]
MCItems == {Item(133, <<7>>), Item(5, <<133>>), Item(6, <<133, 1>>), Item(4, <<>>),
            Item(9, <<5>>), Item(11, <<2, 133, 0, 9>>), Item(192, <<>>),
            Item(149, <<9>>), Item(254, <<2, 133, 133, 5>>)}
MCDescriptors == UNION {[1..n -> MCItems] : n \in 0..3}

ASSUME DescriptorAssumption ==
    \A items \in MCDescriptors :
        /\ UsageRight(items)
        /\ \A size \in 0..Len(Encode(items)) : NumberedRight(items, size)
=============================================================================

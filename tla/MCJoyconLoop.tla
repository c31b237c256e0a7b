---------------------------- MODULE MCJoyconLoop ----------------------------
(* Small instances of JoyconLoop for TLC.                                  *)
EXTENDS JoyconLoop

CONSTANTS c1, c2, c3,      (* calls *)
          f1, f2, f3       (* stack frames *)

MCCalls3 == {c1, c2, c3}
MCFrames == {f1, f2, f3}

\* c1 and c2 ask for the battery level, c3 sets the sensitivity.
MCKindOf3 == [c \in MCCalls3 |-> IF c = c3 THEN "sensitivity" ELSE "battery"]

\* c1 and c2 are made one after the other at the same stack address.
MCSharedFrame3 == [c \in MCCalls3 |-> IF c = c3 THEN f2 ELSE f1]

MCCalls2 == {c1, c2}
MCKindOf2 == [c \in MCCalls2 |-> IF c = c1 THEN "battery" ELSE "toggle"]
MCOwnFrame2 == [c \in MCCalls2 |-> IF c = c1 THEN f1 ELSE f2]
=============================================================================

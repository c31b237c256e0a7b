------------------------ MODULE MCControllerRegistry ------------------------
(* Small instances of ControllerRegistry for TLC.                          *)
EXTENDS ControllerRegistry, TLC

CONSTANTS d1, d2, d3, d4     (* controllers *)

MCDevices4 == {d1, d2, d3, d4}
\* Two right Joy-Cons, a left one and a Pro controller.
MCTypeOf4 == (d1 :> "right" @@ d2 :> "right") @@ (d3 :> "left" @@ d4 :> "pro")

MCDevices3 == {d1, d2, d3}
MCTypeOf3 == (d1 :> "right" @@ d2 :> "right") @@ (d3 :> "left")
=============================================================================

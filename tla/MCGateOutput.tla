----------------------------- MODULE MCGateOutput -----------------------------
(* A small instance of GateOutput for TLC: plain names, and names whose ends   *)
(* look like the separator, a marker or the start of one.                      *)
EXTENDS GateOutput

Plain  == <<"Letter">>
Dashed == <<"Letter", "Dash">>
Marked == <<"Letter", "Dash">> \o Spelled(1)
Begun  == <<"Letter", "Dash", "Letter", "Dash", "Digit">>

SomeNames == {Plain, Dashed, Marked, Begun}
=============================================================================

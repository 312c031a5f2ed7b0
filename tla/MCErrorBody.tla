------------------------------ MODULE MCErrorBody ------------------------------
(* A small instance of ErrorBody for TLC: bodies whose bytes are all different. *)
EXTENDS ErrorBody

CONSTANT MaxLength
Numbered == {[i \in 1..n |-> i] : n \in 0..MaxLength}
=============================================================================

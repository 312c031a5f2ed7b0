------------------------------- MODULE MCService -------------------------------
(* A small instance of Service for TLC: intervals shorter and longer than the  *)
(* longest cycle, and those that should be refused.                            *)
EXTENDS Service

SomeIntervals == -1..5
=============================================================================

------------------------------- MODULE PlainBody -------------------------------
(***************************************************************************)
(* What the body of an HTTP response promises the one who reads it: its    *)
(* bytes in order, each once, in pieces of any size, then how it ended;    *)
(* and closing it gives the connection back.                               *)
(***************************************************************************)
EXTENDS Naturals, Sequences

CONSTANT Bodies      \* the bodies GitHub may send

VARIABLES
  body,     \* what the connection delivers of the current response
  ending,   \* and how it ends
  got,      \* the bytes the reader has been given
  result,   \* how the body ended for the reader; "none" as long as it has not
  conn      \* the connection is in use

vars == <<body, ending, got, result, conn>>

Endings == {"eof", "error"}

Init ==
  /\ body = <<>>
  /\ ending = "eof"
  /\ got = <<>>
  /\ result = "none"
  /\ conn = FALSE

Respond ==
  /\ ~conn
  /\ body' \in Bodies
  /\ ending' \in Endings
  /\ got' = <<>>
  /\ result' = "none"
  /\ conn' = TRUE

\* The last piece may come with the end or before it.
Read ==
  /\ conn
  /\ result = "none"
  /\ \E n \in (Len(got) + 1)..Len(body) :
       /\ got' = SubSeq(body, 1, n)
       /\ result' \in {"none"} \cup (IF n = Len(body) THEN {ending} ELSE {})
  /\ UNCHANGED <<body, ending, conn>>

End ==
  /\ conn
  /\ result = "none"
  /\ got = body
  /\ result' = ending
  /\ UNCHANGED <<body, ending, got, conn>>

Close ==
  /\ conn
  /\ conn' = FALSE
  /\ UNCHANGED <<body, ending, got, result>>

Next == Respond \/ Read \/ End \/ Close

Spec == Init /\ [][Next]_vars
=============================================================================

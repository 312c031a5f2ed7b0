------------------------------- MODULE ErrorBody -------------------------------
(***************************************************************************)
(* A response on its way through non2xxLoggingTransport.  The head of an   *)
(* error body is read for the log line and replayed to the caller in front *)
(* of the rest.  The caller is go-github, which reads an error body to its *)
(* end and tells by it, among other things, a secondary rate limit from an *)
(* ordinary error.                                                         *)
(***************************************************************************)
EXTENDS Naturals, Sequences

CONSTANTS
  Bytes,
  Bodies,      \* the bodies GitHub may send
  PeekBytes    \* non2xxPeekBytes

ASSUME BodiesAssumption    == Bodies \subseteq Seq(Bytes)
ASSUME PeekBytesAssumption == PeekBytes \in Nat

\* "ok" is a 2xx, "missing" a 404; "primary" is told by its headers, "secondary"
\* by its body only.
Kinds   == {"ok", "missing", "primary", "secondary", "other"}
Endings == {"eof", "error"}

VARIABLES
  pc,        \* where the response is
  kind,      \* its kind
  body,      \* what the connection delivers of it
  ending,    \* and how it ends
  pos,       \* bytes taken from the connection
  spent,     \* it has reported an error
  prefix,    \* the bytes peeked
  replayed,  \* those of them the caller has been given
  rest,      \* what follows the prefix: the connection, or its error again
  got,       \* the bytes the caller has been given
  result,    \* how the body ended for the caller
  conn,      \* the connection is in use
  verdict    \* what the GitHub client makes of the response

vars == <<pc, kind, body, ending, pos, spent, prefix, replayed, rest, got, result, conn, verdict>>

Init ==
  /\ pc = "idle"
  /\ kind = "ok"
  /\ body = <<>>
  /\ ending = "eof"
  /\ pos = 0
  /\ spent = FALSE
  /\ prefix = <<>>
  /\ replayed = 0
  /\ rest = "conn"
  /\ got = <<>>
  /\ result = "none"
  /\ conn = FALSE
  /\ verdict = "none"

-----------------------------------------------------------------------------
(* The transport.                                                          *)

\* The inner RoundTrip has answered.  A transport error leaves nothing to read.
RoundTrip ==
  /\ pc = "idle"
  /\ kind' \in Kinds
  /\ body' \in Bodies
  /\ ending' \in Endings
  /\ pc' = IF kind' = "ok" THEN "handed" ELSE "peek"
  /\ pos' = 0
  /\ spent' = FALSE
  /\ prefix' = <<>>
  /\ replayed' = 0
  /\ rest' = "conn"
  /\ got' = <<>>
  /\ result' = "none"
  /\ conn' = TRUE
  /\ verdict' = "none"

\* A Read of up to limit bytes from the connection and the error that comes with
\* it: the end may be reported with the last bytes or after them.  A clean end is
\* reported again on every further Read; after an error, anything may follow.
FromConn(limit, n, err) ==
  /\ n \in 0..limit
  /\ pos + n <= Len(body)
  /\ pos' = pos + n
  /\ \/ err = "none" /\ n > 0
     \/ err = ending /\ pos + n = Len(body)
     \/ err = "eof" /\ spent
  /\ spent' = (spent \/ err = "error")

Taken(n) == SubSeq(body, pos + 1, pos + n)

\* Mutant: the error that ended the peek is forgotten.
HandOver_Forgets(err) ==
  /\ pc' = "handed"
  /\ rest' = "conn"

\* io.ReadAll takes "eof" for no error; any other is kept for the caller.
HandOver(err) ==
  /\ pc' = "handed"
  /\ rest' = IF err = "error" THEN "error" ELSE "conn"

\* Mutant: the whole body is read.
Peek_Unlimited ==
  /\ pc = "peek"
  /\ \E n \in 0..Len(body), err \in Endings \cup {"none"} :
       /\ FromConn(Len(body), n, err)
       /\ prefix' = prefix \o Taken(n)
       /\ IF err = "none" THEN UNCHANGED <<pc, rest>> ELSE HandOver(err)
  /\ UNCHANGED <<kind, body, ending, replayed, got, result, conn, verdict>>

\* One read of io.ReadAll over the LimitReader.
Peek ==
  /\ pc = "peek"
  /\ Len(prefix) < PeekBytes
  /\ \E n \in 0..PeekBytes, err \in Endings \cup {"none"} :
       /\ FromConn(PeekBytes - Len(prefix), n, err)
       /\ prefix' = prefix \o Taken(n)
       /\ IF err = "none" THEN UNCHANGED <<pc, rest>> ELSE HandOver(err)
  /\ UNCHANGED <<kind, body, ending, replayed, got, result, conn, verdict>>

\* The LimitReader reports the end without asking the connection.
PeekLimit ==
  /\ pc = "peek"
  /\ Len(prefix) = PeekBytes
  /\ HandOver("eof")
  /\ UNCHANGED <<kind, body, ending, pos, spent, prefix, replayed, got, result, conn, verdict>>

-----------------------------------------------------------------------------
(* peekedBody and its reader.                                              *)

Reading == pc = "handed" /\ result = "none"

\* io.MultiReader: first the prefix ...
ReadPrefix ==
  /\ Reading
  /\ replayed < Len(prefix)
  /\ \E n \in 1..(Len(prefix) - replayed) :
       /\ got' = got \o SubSeq(prefix, replayed + 1, replayed + n)
       /\ replayed' = replayed + n
  /\ UNCHANGED <<pc, kind, body, ending, pos, spent, prefix, rest, result, conn, verdict>>

\* Mutant: the body handed back is the prefix alone.
ReadRest_PrefixOnly ==
  /\ Reading
  /\ replayed = Len(prefix)
  /\ rest = "conn"
  /\ IF kind = "ok"
       THEN \E n \in 0..Len(body), err \in Endings \cup {"none"} :
              /\ FromConn(Len(body), n, err)
              /\ got' = got \o Taken(n)
              /\ result' = err
       ELSE result' = "eof" /\ UNCHANGED <<got, pos, spent>>
  /\ UNCHANGED <<pc, kind, body, ending, prefix, replayed, rest, conn, verdict>>

\* ... then what is left of the original body ...
ReadRest ==
  /\ Reading
  /\ replayed = Len(prefix)
  /\ rest = "conn"
  /\ \E n \in 0..Len(body), err \in Endings \cup {"none"} :
       /\ FromConn(Len(body), n, err)
       /\ got' = got \o Taken(n)
       /\ result' = err
  /\ UNCHANGED <<pc, kind, body, ending, prefix, replayed, rest, conn, verdict>>

\* ... or errReader.
ReadError ==
  /\ Reading
  /\ replayed = Len(prefix)
  /\ rest = "error"
  /\ result' = "error"
  /\ UNCHANGED <<pc, kind, body, ending, pos, spent, prefix, replayed, rest, got, conn, verdict>>

\* The caller is done, or gives up early; Close goes to the original body.
Close ==
  /\ pc = "handed"
  /\ pc' = "idle"
  /\ conn' = FALSE
  /\ UNCHANGED <<kind, body, ending, pos, spent, prefix, replayed, rest, got, result, verdict>>

-----------------------------------------------------------------------------
(* go-github's CheckResponse, and what the client tells its errors by.     *)

\* A body that does not end well, or is not whole, is no JSON document.
Understood == result = "eof" /\ got = body

\* isRateLimitError, isNotFound
Verdict ==
  CASE kind = "ok" /\ Understood                                -> "answer"
    [] kind = "missing"                                         -> "not_found"
    [] kind = "primary" \/ (kind = "secondary" /\ Understood)   -> "rate_limited"
    [] OTHER                                                    -> "failed"

Conclude ==
  /\ pc = "handed"
  /\ result # "none"
  /\ verdict = "none"
  /\ verdict' = Verdict
  /\ UNCHANGED <<pc, kind, body, ending, pos, spent, prefix, replayed, rest, got, result, conn>>

Next ==
  \/ RoundTrip \/ Peek \/ PeekLimit
  \/ ReadPrefix \/ ReadRest \/ ReadError \/ Close
  \/ Conclude

Spec == Init /\ [][Next]_vars

-----------------------------------------------------------------------------
(* Properties.                                                             *)

FlagsOK == spent \in BOOLEAN /\ conn \in BOOLEAN

DataOK ==
  /\ pc \in {"idle", "peek", "handed"}
  /\ kind \in Kinds
  /\ body \in Seq(Bytes)
  /\ ending \in Endings
  /\ pos \in 0..Len(body)
  /\ prefix \in Seq(Bytes)
  /\ Len(prefix) <= PeekBytes
  /\ replayed \in 0..Len(prefix)
  /\ rest \in {"conn", "error"}
  /\ got \in Seq(Bytes)
  /\ result \in Endings \cup {"none"}
  /\ verdict \in {"none", "answer", "not_found", "rate_limited", "failed"}
  /\ kind = "ok" => prefix = <<>>

\* Types; no more than PeekBytes of a body are ever buffered, however large it
\* is, and a 2xx is not touched.
TypeOK == FlagsOK /\ DataOK

\* The body the caller reads and closes is as good as the one GitHub sent: the
\* same bytes in order, then the same end or error, and its Close gives the
\* connection back.
Plain == INSTANCE PlainBody
ImplementsPlainBody == Plain!Spec

\* What the response itself calls for.
Deserved ==
  CASE kind = "ok" /\ ending = "eof"                              -> "answer"
    [] kind = "missing"                                           -> "not_found"
    [] kind = "primary" \/ (kind = "secondary" /\ ending = "eof") -> "rate_limited"
    [] OTHER                                                      -> "failed"

\* Peeking for the log never changes what the client makes of a response: a
\* secondary rate limit, which only its body gives away, is recognised whenever
\* that body arrives whole, and a 404 is still a missing file.
VerdictUnharmed == verdict # "none" => verdict = Deserved
=============================================================================

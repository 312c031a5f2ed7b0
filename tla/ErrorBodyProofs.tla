---------------------------- MODULE ErrorBodyProofs ----------------------------
(* The replayed body is as good as the original, for every body and peek size. *)
EXTENDS ErrorBody, SequenceTheorems, TLAPS

\* What the caller has been given: a part of the prefix, or all of it and what
\* was taken from the connection since.
Handed == pos - (Len(prefix) - replayed)

\* How far the body has been taken from the connection.
CountInv ==
  /\ Len(prefix) <= pos
  /\ pc = "peek" => kind # "ok" /\ pos = Len(prefix) /\ replayed = 0
  /\ pc = "peek" => result = "none" /\ rest = "conn"
  /\ replayed < Len(prefix) => pos = Len(prefix) /\ result = "none"
  /\ rest = "error" => ending = "error" /\ pos = Len(body) /\ pos = Len(prefix)
  /\ result # "none" => result = ending

\* The buffered and the handed bytes are leading bytes of the body, all of them
\* when it has ended.
BytesInv ==
  /\ prefix = SubSeq(body, 1, Len(prefix))
  /\ got = SubSeq(body, 1, Handed)
  /\ result # "none" => got = body

\* A connection that has reported an error is not read again.
SpentInv == spent => pc # "peek" /\ (rest = "error" \/ result # "none")

\* The connection is held from the answer to the Close.
ConnInv == conn <=> pc # "idle"

IInv == FlagsOK /\ DataOK /\ CountInv /\ BytesInv /\ SpentInv /\ ConnInv

-----------------------------------------------------------------------------
\* Appending the next n bytes of a sequence to its first k gives its first k + n.
LEMMA NextBytes ==
  ASSUME NEW S, NEW s \in Seq(S), NEW k \in 0..Len(s), NEW n \in Nat, k + n <= Len(s)
  PROVE  SubSeq(s, 1, k) \o SubSeq(s, k + 1, k + n) = SubSeq(s, 1, k + n)
<1>1. 1 \in 1..(Len(s) + 1) /\ k \in 0..Len(s) /\ k + n \in k..Len(s)
  OBVIOUS
<1>2. QED
  BY <1>1, ConcatAdjacentSubSeq

\* A part of the leading bytes is that part of the sequence.
LEMMA PartOfPrefix ==
  ASSUME NEW S, NEW s \in Seq(S), NEW p \in 0..Len(s),
         NEW k \in Nat, NEW n \in Nat \ {0}, k + n <= p
  PROVE  SubSeq(SubSeq(s, 1, p), k + 1, k + n) = SubSeq(s, k + 1, k + n)
<1>1. /\ 1 \in 1..Len(s) /\ p \in 1..Len(s)
      /\ k + 1 \in 1..(p - 1 + 1) /\ k + n \in 1..(p - 1 + 1)
  OBVIOUS
<1>2. SubSeq(SubSeq(s, 1, p), k + 1, k + n) = SubSeq(s, 1 + (k + 1) - 1, 1 + (k + n) - 1)
  BY <1>1, SubSeqOfSubSeq
<1>3. QED
  BY <1>2

\* The leading bytes of a sequence: their type and their number.
LEMMA LeadingBytes ==
  ASSUME NEW S, NEW s \in Seq(S), NEW k \in 0..Len(s)
  PROVE  SubSeq(s, 1, k) \in Seq(S) /\ Len(SubSeq(s, 1, k)) = k
<1>1. \A i \in 1..k : s[i] \in S
  BY ElementOfSeq
<1>2. QED
  BY <1>1, SubSeqProperties

\* So is any other piece.
LEMMA Piece ==
  ASSUME NEW S, NEW s \in Seq(S), NEW k \in Nat, NEW n \in Nat, k + n <= Len(s)
  PROVE  SubSeq(s, k + 1, k + n) \in Seq(S) /\ Len(SubSeq(s, k + 1, k + n)) = n
<1>1. \A i \in (k + 1)..(k + n) : s[i] \in S
  BY ElementOfSeq
<1>2. QED
  BY <1>1, SubSeqProperties

-----------------------------------------------------------------------------
\* What a Read from a connection in order returns.
LEMMA ConnRead ==
  ASSUME DataOK, ~spent, NEW limit \in Nat, NEW n, NEW err, FromConn(limit, n, err)
  PROVE  /\ n \in Nat /\ n <= limit /\ pos' = pos + n /\ pos + n <= Len(body)
         /\ err = "none" \/ (err = ending /\ pos + n = Len(body))
         /\ spent' <=> err = "error"
<1>1. /\ n \in Nat /\ n <= limit /\ pos' = pos + n /\ pos + n <= Len(body)
      /\ err = "none" \/ (err = ending /\ pos + n = Len(body))
  BY DEF DataOK, FromConn
<1>2. spent' <=> err = "error"
  BY DEF FromConn
<1> QED
  BY <1>1, <1>2

LEMMA Lengths ==
  ASSUME DataOK
  PROVE  /\ Len(prefix) \in Nat /\ Len(body) \in Nat /\ Len(got) \in Nat
         /\ pos \in Nat /\ replayed \in Nat /\ pos <= Len(body) /\ replayed <= Len(prefix)
  BY DEF DataOK

\* The bytes handed over are some of those of the body.
LEMMA HandedRange ==
  ASSUME DataOK, CountInv
  PROVE  Handed \in 0..Len(body)
<1>1. Len(prefix) <= pos
  BY DEF CountInv
<1>2. QED
  BY <1>1, Lengths DEF Handed

LEMMA NextFlagsOK == FlagsOK /\ [Next]_vars => FlagsOK'
  BY DEF FlagsOK, Next, vars, RoundTrip, Peek, PeekLimit, ReadPrefix, ReadRest, ReadError,
         Close, Conclude, FromConn

LEMMA NextConnInv == ConnInv /\ [Next]_vars => ConnInv'
  BY DEF ConnInv, Next, vars, RoundTrip, Peek, PeekLimit, ReadPrefix, ReadRest, ReadError,
         Close, Conclude, HandOver, Reading

\* One read of the peek: the buffer grows by the bytes it takes.
LEMMA PeekStep ==
  ASSUME DataOK, CountInv, BytesInv, SpentInv, Peek
  PROVE  DataOK' /\ CountInv' /\ BytesInv' /\ SpentInv'
<1>1. ~spent /\ pc = "peek" /\ Len(prefix) < PeekBytes /\ pos = Len(prefix)
  BY DEF SpentInv, Peek, CountInv
<1>2. PICK n \in 0..PeekBytes, err \in Endings \cup {"none"} :
        /\ FromConn(PeekBytes - Len(prefix), n, err)
        /\ prefix' = prefix \o Taken(n)
        /\ IF err = "none" THEN UNCHANGED <<pc, rest>> ELSE HandOver(err)
  BY DEF Peek
<1>3. UNCHANGED <<kind, body, ending, replayed, got, result, verdict>>
  BY DEF Peek
<1>4. PeekBytes - Len(prefix) \in Nat
  BY <1>1, PeekBytesAssumption, Lengths
<1>5. /\ n \in Nat /\ n <= PeekBytes - Len(prefix) /\ pos' = pos + n /\ pos + n <= Len(body)
      /\ err = "none" \/ (err = ending /\ pos + n = Len(body))
  BY <1>1, <1>2, <1>4, ConnRead
<1>6. spent' <=> err = "error"
  BY <1>1, <1>2, <1>4, ConnRead
<1>7. Taken(n) \in Seq(Bytes) /\ Len(Taken(n)) = n
  BY <1>5, Lengths, Piece DEF Taken, DataOK
<1>8. prefix' \in Seq(Bytes) /\ Len(prefix') = Len(prefix) + n
  <2>1. prefix \in Seq(Bytes)
    BY DEF DataOK
  <2> QED
    BY <1>2, <1>7, <2>1, ConcatProperties
<1>9. prefix' = SubSeq(body', 1, Len(prefix'))
  <2>1. body \in Seq(Bytes) /\ prefix = SubSeq(body, 1, pos) /\ pos \in 0..Len(body)
    BY <1>1, Lengths DEF DataOK, BytesInv
  <2>2. prefix \o Taken(n) = SubSeq(body, 1, pos + n)
    BY <2>1, <1>5, NextBytes DEF Taken
  <2> QED
    BY <1>1, <1>2, <1>3, <1>8, <2>2
<1>10. err = "none" \/ err \in Endings
  BY <1>2
<1>11. kind # "ok" /\ replayed = 0 /\ result = "none" /\ rest = "conn"
  BY <1>1 DEF CountInv
<1>12. pos' = Len(prefix') /\ Handed = 0 /\ Handed' = 0 /\ Len(prefix') <= PeekBytes
  BY <1>1, <1>3, <1>4, <1>5, <1>8, <1>11, Lengths, PeekBytesAssumption DEF Handed
<1>13. BytesInv'
  BY <1>3, <1>9, <1>11, <1>12 DEF BytesInv
<1>14. /\ pos' \in 0..Len(body') /\ replayed' \in 0..Len(prefix')
  BY <1>3, <1>5, <1>8, <1>11, Lengths
<1>15. CASE err = "none"
  <2>1. UNCHANGED <<pc, rest>>
    BY <1>2, <1>15
  <2>2. DataOK'
    BY <1>3, <1>8, <1>11, <1>12, <1>14, <2>1 DEF DataOK
  <2>3. CountInv'
    BY <1>1, <1>3, <1>11, <1>12, <1>14, <2>1 DEF CountInv
  <2> QED
    BY <1>6, <1>15, <2>2, <2>3, <1>13 DEF SpentInv
<1>16. CASE err \in Endings
  <2>1. /\ err = ending /\ pos' = Len(body') /\ pc' = "handed"
        /\ rest' = IF err = "error" THEN "error" ELSE "conn"
    BY <1>2, <1>3, <1>5, <1>16 DEF HandOver, Endings
  <2>2. DataOK'
    BY <1>3, <1>8, <1>11, <1>12, <1>14, <2>1 DEF DataOK
  <2>3. CountInv'
    BY <1>1, <1>3, <1>11, <1>12, <1>14, <2>1 DEF CountInv
  <2> QED
    BY <1>6, <2>1, <2>2, <2>3, <1>13 DEF SpentInv
<1> QED
  BY <1>10, <1>15, <1>16

\* The peek has reached its limit: nothing was lost and no error is known.
LEMMA PeekLimitStep ==
  ASSUME DataOK, CountInv, BytesInv, SpentInv, PeekLimit
  PROVE  DataOK' /\ CountInv' /\ BytesInv' /\ SpentInv'
  BY DEF PeekLimit, HandOver, DataOK, CountInv, BytesInv, SpentInv, Handed

\* A read of the prefix hands over bytes that were peeked.
LEMMA ReadPrefixStep ==
  ASSUME DataOK, CountInv, BytesInv, SpentInv, ReadPrefix
  PROVE  DataOK' /\ CountInv' /\ BytesInv' /\ SpentInv'
<1>1. /\ pc = "handed" /\ result = "none" /\ replayed < Len(prefix)
      /\ UNCHANGED <<pc, kind, body, ending, pos, spent, prefix, rest, result, conn, verdict>>
  BY DEF ReadPrefix, Reading
<1>2. PICK n \in 1..(Len(prefix) - replayed) :
        /\ got' = got \o SubSeq(prefix, replayed + 1, replayed + n)
        /\ replayed' = replayed + n
  BY DEF ReadPrefix
<1>3. /\ Len(prefix) \in 0..Len(body) /\ replayed + n <= Len(prefix) /\ n \in Nat \ {0}
      /\ replayed \in Nat /\ replayed \in 0..Len(body) /\ pos = Len(prefix)
  <2>1. pos = Len(prefix)
    BY <1>1 DEF CountInv
  <2>2. n \in Nat \ {0} /\ n <= Len(prefix) - replayed
    BY Lengths
  <2> QED
    BY <2>1, <2>2, Lengths
<1>4. Handed = replayed /\ Handed' = replayed + n
  BY <1>1, <1>2, <1>3 DEF Handed
<1>5. SubSeq(prefix, replayed + 1, replayed + n) = SubSeq(body, replayed + 1, replayed + n)
  <2>1. body \in Seq(Bytes) /\ prefix = SubSeq(body, 1, Len(prefix))
    BY DEF DataOK, BytesInv
  <2>2. SubSeq(SubSeq(body, 1, Len(prefix)), replayed + 1, replayed + n)
          = SubSeq(body, replayed + 1, replayed + n)
    BY <1>3, <2>1, PartOfPrefix
  <2> QED
    BY <2>1, <2>2
<1>6. got' = SubSeq(body, 1, replayed + n)
  <2>1. body \in Seq(Bytes) /\ got = SubSeq(body, 1, replayed)
    BY <1>4 DEF DataOK, BytesInv
  <2>2. SubSeq(body, 1, replayed) \o SubSeq(body, replayed + 1, replayed + n)
          = SubSeq(body, 1, replayed + n)
    BY <1>3, <2>1, NextBytes
  <2> QED
    BY <1>2, <1>5, <2>1, <2>2
<1>7. got' \in Seq(Bytes)
  BY <1>3, <1>6, LeadingBytes DEF DataOK
<1>8. replayed' \in 0..Len(prefix')
  BY <1>1, <1>2, <1>3
<1>9. DataOK'
  BY <1>1, <1>7, <1>8 DEF DataOK
<1>10. CountInv'
  BY <1>1, <1>3 DEF CountInv
<1>11. BytesInv'
  BY <1>1, <1>4, <1>6 DEF BytesInv
<1> QED
  BY <1>1, <1>9, <1>10, <1>11 DEF SpentInv

\* A read of the rest continues where the peek stopped.
LEMMA ReadRestStep ==
  ASSUME DataOK, CountInv, BytesInv, SpentInv, ReadRest
  PROVE  DataOK' /\ CountInv' /\ BytesInv' /\ SpentInv'
<1>1. /\ pc = "handed" /\ result = "none" /\ replayed = Len(prefix) /\ rest = "conn" /\ ~spent
      /\ UNCHANGED <<pc, kind, body, ending, prefix, replayed, rest, conn, verdict>>
  BY DEF ReadRest, Reading, SpentInv
<1>2. PICK n \in 0..Len(body), err \in Endings \cup {"none"} :
        FromConn(Len(body), n, err) /\ got' = got \o Taken(n) /\ result' = err
  BY DEF ReadRest
<1>3. /\ n \in Nat /\ pos' = pos + n /\ pos + n <= Len(body)
      /\ err = "none" \/ (err = ending /\ pos + n = Len(body))
  BY <1>1, <1>2, ConnRead, Lengths
<1>4. spent' <=> err = "error"
  BY <1>1, <1>2, ConnRead, Lengths
<1>5. Handed = pos /\ Handed' = pos + n /\ pos \in 0..Len(body) /\ pos' \in 0..Len(body')
  BY <1>1, <1>3, Lengths DEF Handed
<1>6. got' = SubSeq(body, 1, pos + n)
  <2>1. body \in Seq(Bytes) /\ got = SubSeq(body, 1, pos)
    BY <1>5 DEF DataOK, BytesInv
  <2> QED
    BY <1>2, <1>3, <1>5, <2>1, NextBytes DEF Taken
<1>7. got' \in Seq(Bytes)
  BY <1>3, <1>5, <1>6, LeadingBytes DEF DataOK
<1>8. DataOK'
  BY <1>1, <1>2, <1>5, <1>7 DEF DataOK
<1>9. result' # "none" => got' = body' /\ result' = ending'
  BY <1>1, <1>2, <1>3, <1>6, SubSeqFull DEF DataOK
<1>10. CountInv'
  <2>1. Len(prefix) <= pos'
    BY <1>3, Lengths DEF CountInv
  <2>2. ~(replayed' < Len(prefix'))
    BY <1>1, Lengths
  <2> QED
    BY <1>1, <1>9, <2>1, <2>2 DEF CountInv
<1>11. BytesInv'
  BY <1>1, <1>5, <1>6, <1>9 DEF BytesInv
<1> QED
  BY <1>1, <1>2, <1>4, <1>8, <1>10, <1>11 DEF SpentInv

\* The error kept from the peek comes after the last byte.
LEMMA ReadErrorStep ==
  ASSUME DataOK, CountInv, BytesInv, SpentInv, ReadError
  PROVE  DataOK' /\ CountInv' /\ BytesInv' /\ SpentInv'
<1>1. /\ pc = "handed" /\ replayed = Len(prefix) /\ rest = "error" /\ result' = "error"
      /\ UNCHANGED <<pc, kind, body, ending, pos, spent, prefix, replayed, rest, got, conn, verdict>>
  BY DEF ReadError, Reading
<1>2. DataOK'
  BY <1>1 DEF DataOK, Endings
<1>3. ending = "error" /\ Handed = Len(body) /\ Handed' = Handed
  BY <1>1, Lengths DEF CountInv, Handed
<1>4. got = body
  BY <1>3, SubSeqFull DEF DataOK, BytesInv
<1>5. CountInv' /\ BytesInv'
  BY <1>1, <1>3, <1>4 DEF CountInv, BytesInv
<1> QED
  BY <1>1, <1>2, <1>5 DEF SpentInv

\* A new response starts from nothing.
LEMMA RoundTripStep ==
  ASSUME RoundTrip
  PROVE  DataOK' /\ CountInv' /\ BytesInv' /\ SpentInv'
<1>1. /\ kind' \in Kinds /\ body' \in Seq(Bytes) /\ ending' \in Endings
      /\ pc' = IF kind' = "ok" THEN "handed" ELSE "peek"
      /\ pos' = 0 /\ ~spent' /\ prefix' = <<>> /\ replayed' = 0 /\ rest' = "conn"
      /\ got' = <<>> /\ result' = "none" /\ verdict' = "none"
  BY BodiesAssumption DEF RoundTrip
<1>2. SubSeq(body', 1, 0) = <<>>
  BY <1>1, SubSeqEmpty
<1>3. DataOK'
  BY <1>1, PeekBytesAssumption DEF DataOK
<1>4. CountInv' /\ BytesInv'
  BY <1>1, <1>2 DEF CountInv, BytesInv, Handed
<1> QED
  BY <1>1, <1>3, <1>4 DEF SpentInv

LEMMA IInvInit == Init => IInv
<1> SUFFICES ASSUME Init PROVE IInv
  OBVIOUS
<1>1. FlagsOK /\ ConnInv
  BY DEF Init, FlagsOK, ConnInv
<1>2. DataOK
  BY PeekBytesAssumption DEF Init, DataOK, Kinds, Endings
<1>3. SubSeq(body, 1, 0) = <<>>
  BY SubSeqEmpty DEF Init
<1>4. CountInv /\ BytesInv /\ SpentInv
  BY <1>3 DEF Init, CountInv, BytesInv, SpentInv, Handed
<1> QED
  BY <1>1, <1>2, <1>4 DEF IInv

LEMMA IInvStep == IInv /\ [Next]_vars => IInv'
<1> SUFFICES ASSUME IInv, [Next]_vars PROVE DataOK' /\ CountInv' /\ BytesInv' /\ SpentInv'
  BY NextFlagsOK, NextConnInv DEF IInv
<1>1. CASE RoundTrip
  BY <1>1, RoundTripStep
<1>2. CASE Peek
  BY <1>2, PeekStep DEF IInv
<1>3. CASE PeekLimit
  BY <1>3, PeekLimitStep DEF IInv
<1>4. CASE ReadPrefix
  BY <1>4, ReadPrefixStep DEF IInv
<1>5. CASE ReadRest
  BY <1>5, ReadRestStep DEF IInv
<1>6. CASE ReadError
  BY <1>6, ReadErrorStep DEF IInv
<1>7. CASE Close
  BY <1>7 DEF Close, IInv, DataOK, CountInv, BytesInv, SpentInv, Handed
<1>8. CASE Conclude
  BY <1>8 DEF Conclude, Verdict, IInv, DataOK, CountInv, BytesInv, SpentInv, Handed
<1>9. CASE UNCHANGED vars
  BY <1>9 DEF vars, IInv, DataOK, CountInv, BytesInv, SpentInv, Handed
<1> QED
  BY <1>1, <1>2, <1>3, <1>4, <1>5, <1>6, <1>7, <1>8, <1>9 DEF Next

LEMMA Invariant == Spec => []IInv
<1> QED
  BY IInvInit, IInvStep, PTL DEF Spec

\* At most PeekBytes of any error body are buffered, and none of a 2xx.
THEOREM TypeCorrect == Spec => []TypeOK
<1>1. IInv => TypeOK
  BY DEF IInv, TypeOK
<1> QED
  BY <1>1, Invariant, PTL

\* A verdict is given on a body that has ended, so on the whole of it.
LEMMA VerdictStep == IInv /\ VerdictUnharmed /\ [Next]_vars => VerdictUnharmed'
<1> SUFFICES ASSUME IInv, VerdictUnharmed, [Next]_vars PROVE VerdictUnharmed'
  OBVIOUS
<1>1. CASE RoundTrip
  BY <1>1 DEF RoundTrip, VerdictUnharmed
<1>2. CASE Conclude
  <2>1. got = body /\ result = ending /\ verdict' = Verdict
    BY <1>2 DEF Conclude, IInv, CountInv, BytesInv
  <2>2. Verdict = Deserved
    BY <2>1 DEF Verdict, Deserved, Understood
  <2> QED
    BY <1>2, <2>1, <2>2 DEF Conclude, VerdictUnharmed, Deserved
<1>3. CASE UNCHANGED <<kind, ending, verdict>>
  BY <1>3 DEF VerdictUnharmed, Deserved
<1> QED
  BY <1>1, <1>2, <1>3
  DEF Next, Peek, PeekLimit, ReadPrefix, ReadRest, ReadError, Close, vars

\* Whatever the body, the peek size and the pieces it is read in, the client
\* makes of a response what it would have made of it unpeeked.
THEOREM PeekHarmless == Spec => []VerdictUnharmed
<1>1. Init => VerdictUnharmed
  BY DEF Init, VerdictUnharmed
<1> QED
  BY <1>1, VerdictStep, Invariant, PTL DEF Spec

-----------------------------------------------------------------------------
\* Every step is one of the plain body's or changes nothing of it.
LEMMA PlainStep == IInv /\ IInv' /\ [Next]_vars => [Plain!Next]_(Plain!vars)
<1> SUFFICES ASSUME IInv, IInv', [Next]_vars PROVE [Plain!Next]_(Plain!vars)
  OBVIOUS
<1>1. CASE UNCHANGED <<body, ending, got, result, conn>>
  BY <1>1 DEF Plain!vars
<1>2. CASE RoundTrip
  <2>1. Plain!Respond
    BY <1>2 DEF RoundTrip, IInv, ConnInv, Plain!Respond, Plain!Endings, Endings
  <2> QED
    BY <2>1 DEF Plain!Next
<1>3. CASE ReadPrefix \/ ReadRest
  <2>1. /\ conn /\ result = "none" /\ pc = "handed"
        /\ UNCHANGED <<body, ending, conn, prefix>>
    BY <1>3 DEF ReadPrefix, ReadRest, Reading, IInv, ConnInv
  <2>2. /\ got = SubSeq(body, 1, Handed) /\ got' = SubSeq(body, 1, Handed')
        /\ Handed \in 0..Len(body) /\ Handed' \in 0..Len(body)
    <3>1. Handed \in 0..Len(body)
      BY HandedRange DEF IInv
    <3>2. (DataOK /\ CountInv => Handed \in 0..Len(body))'
      BY HandedRange, PTL
    <3> QED
      BY <2>1, <3>1, <3>2 DEF IInv, BytesInv, CountInv
  <2>3. Len(got) = Handed /\ Handed <= Handed'
    <3>1. Len(got) = Handed
      BY <2>2, LeadingBytes DEF IInv, DataOK
    <3>2. Handed <= Handed'
      BY <1>3, <2>1 DEF ReadPrefix, ReadRest, FromConn, Handed, IInv, DataOK
    <3> QED
      BY <3>1, <3>2
  <2>4. result' = "none" \/ (result' = ending /\ got' = body)
    BY <1>3, <2>1 DEF IInv, BytesInv, CountInv
  <2>5. CASE Handed < Handed'
    <3>1. Handed' \in (Len(got) + 1)..Len(body)
      BY <2>2, <2>3, <2>5
    <3>2. result' \in {"none"} \cup (IF Handed' = Len(body) THEN {ending} ELSE {})
      BY <2>1, <2>2, <2>4, LeadingBytes DEF IInv, DataOK
    <3>3. Plain!Read
      BY <2>1, <2>2, <3>1, <3>2 DEF Plain!Read
    <3> QED
      BY <3>3 DEF Plain!Next
  <2>6. CASE Handed = Handed'
    <3>1. got' = got
      BY <2>1, <2>2, <2>6
    <3>2. CASE result' = "none"
      BY <2>1, <3>1, <3>2 DEF Plain!vars
    <3>3. CASE result' = ending /\ got' = body
      BY <2>1, <3>1, <3>3 DEF Plain!Next, Plain!End
    <3> QED
      BY <2>4, <3>2, <3>3
  <2> QED
    BY <2>2, <2>3, <2>5, <2>6
<1>4. CASE ReadError
  <2>1. /\ conn /\ result = "none" /\ result' = "error" /\ got' = got
        /\ UNCHANGED <<body, ending, conn>>
    BY <1>4 DEF ReadError, Reading, IInv, ConnInv
  <2>2. got' = body' /\ result' = ending'
    BY <2>1 DEF IInv, BytesInv, CountInv
  <2> QED
    BY <2>1, <2>2 DEF Plain!Next, Plain!End
<1>5. CASE Close
  BY <1>5 DEF Close, IInv, ConnInv, Plain!Next, Plain!Close
<1> QED
  BY <1>1, <1>2, <1>3, <1>4, <1>5 DEF Next, Peek, PeekLimit, Conclude, vars

\* The transport hands out bodies as good as the ones it was given.
THEOREM Refinement == Spec => ImplementsPlainBody
<1>1. Init => Plain!Init
  BY DEF Init, Plain!Init
<1> QED
  BY <1>1, PlainStep, Invariant, PTL DEF Spec, ImplementsPlainBody, Plain!Spec
=============================================================================

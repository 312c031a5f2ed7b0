---------------------------- MODULE ScannerProofs ----------------------------
(***************************************************************************)
(* The safety properties of Scanner, for any number of gates and of        *)
(* repositories.                                                           *)
(***************************************************************************)
EXTENDS Scanner, TLAPS

LEMMA InitTypeOK == Init => TypeOK
<1>1. Init => FlagsOK
  BY DEF Init, FlagsOK
<1>2. Init => DataOK
  BY GateCountAssumption, MaxReposAssumption
  DEF Init, DataOK, Gates, RevParse, Kinds, Replies, OverrunCap
<1> QED
  BY <1>1, <1>2 DEF TypeOK

\* What the end of a command changes.
LEMMA EndedOK ==
  ASSUME DataOK, NEW ok \in BOOLEAN, Ended(ok), pc \in {"start", "waiting"}
  PROVE  /\ cmd' \in 0..RevParse
         /\ reply' \in Replies
         /\ pc' \in {"start", "classify", "remove"}
<1> USE GateCountAssumption DEF DataOK, Gates, RevParse, Replies
<1>1. CASE CloneEnded(ok)
  BY <1>1 DEF CloneEnded, Advance, Return
<1>2. CASE GateEnded(ok)
  BY <1>2 DEF GateEnded, Advance, Return
<1>3. CASE RevParseEnded(ok)
  BY <1>3 DEF RevParseEnded, Return
<1> QED
  BY <1>1, <1>2, <1>3 DEF Ended

LEMMA NextDataOK == DataOK /\ [Next]_vars => DataOK'
<1> SUFFICES ASSUME DataOK, [Next]_vars PROVE DataOK'
  OBVIOUS
<1> USE GateCountAssumption, MaxReposAssumption
    DEF DataOK, Gates, RevParse, Kinds, Group, Replies, OverrunCap, scanVars, ctxVars,
        histVars
<1>1. CASE StartCycle \/ NextRepo \/ CallScan \/ CycleCut
  <2>1. CASE StartCycle
    BY <2>1 DEF StartCycle
  <2>2. CASE NextRepo
    BY <2>2 DEF NextRepo
  <2>3. CASE CallScan
    BY <2>3 DEF CallScan
  <2>4. CASE CycleCut
    BY <2>4 DEF CycleCut
  <2> QED
    BY <1>1, <2>1, <2>2, <2>3, <2>4
<1>2. CASE MakeDir \/ MakeDirFails \/ Mint \/ RemoveDir
  BY <1>2 DEF MakeDir, MakeDirFails, Mint, RemoveDir
<1>3. CASE StartFails
  <2>1. Ended(FALSE) /\ pc = "start"
    BY <1>3 DEF StartFails
  <2> QED
    BY <1>3, <2>1, EndedOK DEF StartFails
<1>4. CASE WaitReturns
  <2>1. Ended(status = "ok") /\ pc = "waiting"
    BY <1>4 DEF WaitReturns
  <2>2. (status = "ok") \in BOOLEAN
    OBVIOUS
  <2> QED
    BY <1>4, <2>1, <2>2, EndedOK DEF WaitReturns
<1>5. CASE WaitDelayFires
  <2>1. Ended(FALSE) /\ pc = "waiting"
    BY <1>5 DEF WaitDelayFires
  <2>2. overrun' \in 0..OverrunCap
    BY <1>5 DEF WaitDelayFires, CountOverrun
  <2> QED
    BY <1>5, <2>1, <2>2, EndedOK DEF WaitDelayFires
<1>6. CASE Classify
  BY <1>6 DEF Classify, Return
<1>7. CASE Start \/ Fork \/ DescendantExits \/ GatePrints
  BY <1>7 DEF Start, Fork, DescendantExits, GatePrints
<1>8. CASE LeaderExits
  <2>1. procs' \subseteq procs /\ pipe' \subseteq procs' /\ pc' = "waiting"
    BY <1>8 DEF LeaderExits
  <2>2. status' \in {"ok", "bad"} /\ green' \subseteq Gates
    BY <1>8 DEF LeaderExits
  <2> QED
    BY <1>8, <2>1, <2>2 DEF LeaderExits
<1>9. CASE Kill
  BY <1>9 DEF Kill
<1>10. CASE Expire \/ Cancel \/ UNCHANGED vars
  BY <1>10 DEF Expire, Cancel, vars
<1> QED
  BY <1>1, <1>2, <1>3, <1>4, <1>5, <1>6, <1>7, <1>8, <1>9, <1>10 DEF Next, Program

LEMMA NextFlagsOK == FlagsOK /\ [Next]_vars => FlagsOK'
<1> SUFFICES ASSUME FlagsOK, [Next]_vars PROVE FlagsOK'
  OBVIOUS
<1> USE DEF FlagsOK, scanVars, ctxVars, histVars
<1>1. CASE StartCycle \/ NextRepo \/ CallScan \/ CycleCut
  BY <1>1 DEF StartCycle, NextRepo, CallScan, CycleCut
<1>2. CASE MakeDir \/ MakeDirFails \/ Mint \/ RemoveDir
  BY <1>2 DEF MakeDir, MakeDirFails, Mint, RemoveDir
<1>3. ASSUME NEW ok \in BOOLEAN, Ended(ok) PROVE red' \in BOOLEAN
  BY <1>3 DEF Ended, CloneEnded, GateEnded, RevParseEnded, Return
<1>4. CASE StartFails
  BY <1>3, <1>4 DEF StartFails
<1>5. CASE WaitReturns
  <2>1. (status = "ok") \in BOOLEAN
    OBVIOUS
  <2> QED
    BY <1>3, <1>5, <2>1 DEF WaitReturns
<1>6. CASE WaitDelayFires
  BY <1>3, <1>6 DEF WaitDelayFires
<1>7. CASE Classify
  BY <1>7 DEF Classify, Return
<1>8. CASE Start \/ Fork \/ DescendantExits \/ GatePrints \/ LeaderExits \/ Kill
  BY <1>8 DEF Start, Fork, DescendantExits, GatePrints, LeaderExits, Kill
<1>9. CASE Expire \/ Cancel \/ UNCHANGED vars
  BY <1>9 DEF Expire, Cancel, vars
<1> QED
  BY <1>1, <1>2, <1>4, <1>5, <1>6, <1>7, <1>8, <1>9 DEF Next, Program

\* The variables of Scanner keep their types, and processes exist only while
\* their command runs.
THEOREM TypeCorrect == Spec => []TypeOK
<1>1. TypeOK /\ [Next]_vars => TypeOK'
  BY NextDataOK, NextFlagsOK DEF TypeOK
<1> QED
  BY <1>1, InitTypeOK, PTL DEF Spec

LEMMA AlwaysDataOK == Spec => []DataOK
<1>1. TypeOK => DataOK
  BY DEF TypeOK
<1> QED
  BY <1>1, TypeCorrect, PTL

-----------------------------------------------------------------------------
\* Before the first gate the histories are empty; a killed gate is the running
\* one, with the context done, until Scan has returned gate_timeout.
Returned == pc \in {"idle", "gather", "remove"}

KilledTells ==
  killed # {} =>
    \/ Returned /\ reply = "gate_timeout"
    \/ pc = "waiting" /\ status = "bad" /\ CtxDone /\ cmd \in Gates

\* While no gate has failed, every gate already run is green.
GreenSoFar ==
  ~red => \A g \in Gates : g < cmd => g \in green

Running ==
  /\ ~Returned => reply = "none"
  /\ pc = "classify" => cmd = RevParse
  /\ pc = "waiting" /\ status = "ok" /\ cmd \in Gates => cmd \in green
  /\ pc = "mint" => cmd = 0
  /\ pc = "mkdir" => cmd = 0 /\ killed = {}

\* The inductive invariant behind VerdictIsEarned.
VerdictInv == KilledTells /\ GreenSoFar /\ Running /\ VerdictIsEarned

LEMMA InitVerdictInv == Init => VerdictInv
  BY GateCountAssumption
  DEF Init, VerdictInv, KilledTells, GreenSoFar, Running, VerdictIsEarned, Returned,
      Gates

LEMMA EndedKeepsVerdict ==
  ASSUME DataOK, VerdictInv, NEW ok \in BOOLEAN, Ended(ok),
         pc \in {"start", "waiting"},
         ok => status = "ok" /\ pc = "waiting",
         UNCHANGED <<green, killed, ctxVars, status>>
  PROVE  VerdictInv'
<1> USE GateCountAssumption
    DEF DataOK, VerdictInv, KilledTells, GreenSoFar, Running, VerdictIsEarned, Returned,
        Gates, RevParse, CtxDone, ctxVars, Replies
<1>1. CASE CloneEnded(ok)
  BY <1>1 DEF CloneEnded, Advance, Return
<1>2. CASE GateEnded(ok)
  BY <1>2 DEF GateEnded, Advance, Return
<1>3. CASE RevParseEnded(ok)
  BY <1>3 DEF RevParseEnded, Return
<1> QED
  BY <1>1, <1>2, <1>3 DEF Ended

LEMMA NextVerdictInv == DataOK /\ VerdictInv /\ [Next]_vars => VerdictInv'
<1> SUFFICES ASSUME DataOK, VerdictInv, [Next]_vars PROVE VerdictInv'
  OBVIOUS
<1> USE GateCountAssumption
    DEF DataOK, VerdictInv, KilledTells, GreenSoFar, Running, VerdictIsEarned, Returned,
        Gates, RevParse, CtxDone, ctxVars, scanVars, histVars
<1>1. CASE StartFails
  <2>1. Ended(FALSE) /\ pc = "start" /\ UNCHANGED <<green, killed, ctxVars, status>>
    BY <1>1 DEF StartFails
  <2> QED
    BY <2>1, EndedKeepsVerdict
<1>2. CASE WaitReturns
  <2>1. /\ Ended(status = "ok") /\ pc = "waiting"
        /\ UNCHANGED <<green, killed, ctxVars, status>>
    BY <1>2 DEF WaitReturns
  <2>2. (status = "ok") \in BOOLEAN
    OBVIOUS
  <2> QED
    BY <2>1, <2>2, EndedKeepsVerdict
<1>3. CASE WaitDelayFires
  <2>1. Ended(FALSE) /\ pc = "waiting" /\ UNCHANGED <<green, killed, ctxVars, status>>
    BY <1>3 DEF WaitDelayFires
  <2> QED
    BY <2>1, EndedKeepsVerdict
<1>4. CASE StartCycle \/ NextRepo \/ CallScan \/ CycleCut
  BY <1>4 DEF StartCycle, NextRepo, CallScan, CycleCut
<1>5. CASE MakeDir \/ MakeDirFails \/ Mint \/ RemoveDir
  BY <1>5 DEF MakeDir, MakeDirFails, Mint, RemoveDir
<1>6. CASE Classify
  <2>1. cmd = GateCount + 1 /\ \A g \in Gates : g < cmd
    BY <1>6 DEF Classify
  <2>3. ~red => green = Gates
    BY <2>1
  <2>2. killed = {}
    BY <1>6 DEF Classify
  <2> QED
    BY <1>6, <2>1, <2>2, <2>3 DEF Classify, Return
<1>7. CASE Start \/ Fork \/ DescendantExits \/ GatePrints
  BY <1>7 DEF Start, Fork, DescendantExits, GatePrints
<1>8. CASE LeaderExits
  BY <1>8 DEF LeaderExits
<1>9. CASE Kill
  BY <1>9 DEF Kill
<1>10. CASE Expire \/ Cancel \/ UNCHANGED vars
  BY <1>10 DEF Expire, Cancel, vars
<1> QED
  BY <1>1, <1>2, <1>3, <1>4, <1>5, <1>6, <1>7, <1>8, <1>9, <1>10 DEF Next, Program

\* No verdict is ever taken from a gate the context has killed, and "clean" means
\* that every gate exited with status 0.
THEOREM VerdictsAreEarned == Spec => []VerdictIsEarned
<1>1. Spec => []VerdictInv
  BY InitVerdictInv, NextVerdictInv, AlwaysDataOK, PTL DEF Spec
<1>2. VerdictInv => VerdictIsEarned
  BY DEF VerdictInv
<1> QED
  BY <1>1, <1>2, PTL

-----------------------------------------------------------------------------
\* The inductive invariant behind CloneDirRemoved.
DirInv ==
  /\ pc \in {"idle", "gather"} /\ dir => undeleted
  /\ pc = "mkdir" => ~dir

\* The clone directory is gone whenever Scan has returned, unless RemoveAll failed.
THEOREM NoCloneDirLeft == Spec => []CloneDirRemoved
<1>1. Init => DirInv
  BY DEF Init, DirInv
<1>2. DataOK /\ DirInv /\ [Next]_vars => DirInv'
  <2> SUFFICES ASSUME DataOK, DirInv, [Next]_vars PROVE DirInv'
    OBVIOUS
  <2> USE DEF DirInv, DataOK, scanVars, ctxVars, histVars
  <2>1. CASE StartCycle \/ NextRepo \/ CallScan \/ CycleCut
    BY <2>1 DEF StartCycle, NextRepo, CallScan, CycleCut
  <2>2. CASE MakeDir \/ MakeDirFails \/ Mint \/ RemoveDir
    BY <2>2 DEF MakeDir, MakeDirFails, Mint, RemoveDir
  <2>3. CASE StartFails \/ WaitReturns \/ WaitDelayFires
    BY <2>3 DEF StartFails, WaitReturns, WaitDelayFires, Ended, CloneEnded, GateEnded,
                RevParseEnded, Advance, Return
  <2>4. CASE Classify
    BY <2>4 DEF Classify, Return
  <2>5. CASE Start \/ Fork \/ DescendantExits \/ GatePrints \/ LeaderExits \/ Kill
    BY <2>5 DEF Start, Fork, DescendantExits, GatePrints, LeaderExits, Kill
  <2>6. CASE Expire \/ Cancel \/ UNCHANGED vars
    BY <2>6 DEF Expire, Cancel, vars
  <2> QED
    BY <2>1, <2>2, <2>3, <2>4, <2>5, <2>6 DEF Next, Program
<1>3. DirInv => CloneDirRemoved
  BY DEF DirInv, CloneDirRemoved
<1> QED
  BY <1>1, <1>2, <1>3, AlwaysDataOK, PTL DEF Spec

-----------------------------------------------------------------------------
\* The inductive invariant behind OverrunBounded: after a WaitDelay that was sat
\* out with the context done, Scan only has its directory left to remove.
OverrunInv == overrun = 0 \/ (overrun = 1 /\ Returned)

\* Scan sits out at most one WaitDelay after its context is done.
THEOREM AtMostOneOverrun == Spec => []OverrunBounded
<1>1. Init => OverrunInv
  BY DEF Init, OverrunInv
<1>2. DataOK /\ OverrunInv /\ [Next]_vars => OverrunInv'
  <2> SUFFICES ASSUME DataOK, OverrunInv, [Next]_vars PROVE OverrunInv'
    OBVIOUS
  <2> USE DEF OverrunInv, Returned, DataOK, scanVars, ctxVars, histVars
  <2>1. CASE WaitDelayFires
    <3>1. CASE CtxDone
      <4>1. pc' = "remove"
        BY <2>1, <3>1 DEF WaitDelayFires, Ended, CloneEnded, GateEnded, RevParseEnded,
                          Return
      <4> QED
        BY <2>1, <4>1 DEF WaitDelayFires, CountOverrun
    <3>2. CASE ~CtxDone
      BY <2>1, <3>2 DEF WaitDelayFires, CountOverrun
    <3> QED
      BY <3>1, <3>2
  <2>2. CASE StartCycle \/ NextRepo \/ CallScan \/ CycleCut
    BY <2>2 DEF StartCycle, NextRepo, CallScan, CycleCut
  <2>3. CASE MakeDir \/ MakeDirFails \/ Mint \/ RemoveDir
    BY <2>3 DEF MakeDir, MakeDirFails, Mint, RemoveDir
  <2>4. CASE StartFails \/ WaitReturns \/ Classify
    BY <2>4 DEF StartFails, WaitReturns, Classify
  <2>5. CASE Start \/ Fork \/ DescendantExits \/ GatePrints \/ LeaderExits \/ Kill
    BY <2>5 DEF Start, Fork, DescendantExits, GatePrints, LeaderExits, Kill
  <2>6. CASE Expire \/ Cancel \/ UNCHANGED vars
    BY <2>6 DEF Expire, Cancel, vars
  <2> QED
    BY <2>1, <2>2, <2>3, <2>4, <2>5, <2>6 DEF Next, Program
<1>3. OverrunInv => OverrunBounded
  BY DEF OverrunInv, OverrunBounded
<1> QED
  BY <1>1, <1>2, <1>3, AlwaysDataOK, PTL DEF Spec
=============================================================================
